---- MODULE Spec2Model ----
(***************************************************************************)
(* Infection spread simulation: the serial engine ("slug"), the per-person *)
(* tick and its value model, and the entrypoint of the concurrent engine   *)
(* ("rocket").                                                             *)
(***************************************************************************)
EXTENDS Integers, Sequences, FiniteSets, TLC

VARIABLES scenario, population, trace, statistics, positions, ghosts,
          ticks_done, idx, pc, output, launches, call

vars == <<scenario, population, trace, statistics, positions, ghosts,
          ticks_done, idx, pc, output, launches, call>>

slug_vars == <<scenario, population, trace, statistics, positions, ghosts,
               ticks_done, idx, pc, output>>

----------------------------------------------------------------------------
(* Bounds of the model.                                                    *)

\* Width and height of the grids of the scenarios explored.
GridWidth == 2
GridHeight == 2
\* Number of persons in the population of a scenario.
NumPersons == 2
\* Number of ticks of a scenario (Scenario.ticks).
MaxTicks == 2
\* Largest padding handed to launch.
MaxPadding == 3
\* Number of launch calls made on one scenario.
MaxLaunches == 2

----------------------------------------------------------------------------
(* Value model: Xy, Rectangle, Direction.                                  *)

Min(a, b) == IF a <= b THEN a ELSE b
Max(a, b) == IF a >= b THEN a ELSE b
Abs(a) == IF a < 0 THEN -a ELSE a

Xy_new(x, y) == [x |-> x, y |-> y]
Xy_zero == Xy_new(0, 0)
Xy_add(a, b) == Xy_new(a.x + b.x, a.y + b.y)
Xy_sub(a, b) == Xy_new(a.x - b.x, a.y - b.y)
Xy_limitNothing(v, min, max) == v
Xy_limit(v, min, max) == [x |-> Max(Min(v.x, max), min), y |-> Max(Min(v.y, max), min)]

Rectangle_new(top_left, size) ==
    [top_left |-> top_left, size |-> size, bottom_right |-> Xy_add(top_left, size)]

Rectangle_contains(r, cell) ==
    /\ r.top_left.x <= cell.x
    /\ cell.x < r.bottom_right.x
    /\ r.top_left.y <= cell.y
    /\ cell.y < r.bottom_right.y

Rectangle_overlapsTouching(self, other) ==
    ~(\/ self.bottom_right.x < other.top_left.x
      \/ other.bottom_right.x < self.top_left.x
      \/ self.top_left.y > other.bottom_right.y
      \/ other.top_left.y > self.bottom_right.y)

Rectangle_overlaps(self, other) ==
    ~(\/ self.bottom_right.x <= other.top_left.x
      \/ other.bottom_right.x <= self.top_left.x
      \/ self.top_left.y >= other.bottom_right.y
      \/ other.top_left.y >= self.bottom_right.y)

Rectangle_intersectHull(self, other) ==
    IF ~Rectangle_overlaps(self, other)
    THEN [kind |-> "Panic", message |-> "Rectangles must overlap!"]
    ELSE LET top_left == Xy_new(Min(self.top_left.x, other.top_left.x),
                                Min(self.top_left.y, other.top_left.y))
             bottom_right == Xy_new(Max(self.bottom_right.x, other.bottom_right.x),
                                    Max(self.bottom_right.y, other.bottom_right.y))
         IN  [top_left |-> top_left, size |-> Xy_sub(bottom_right, top_left),
              bottom_right |-> bottom_right]

\* The failed assertion of intersect is the value of kind "Panic".
Rectangle_intersect(self, other) ==
    IF ~Rectangle_overlaps(self, other)
    THEN [kind |-> "Panic", message |-> "Rectangles must overlap!"]
    ELSE LET top_left == Xy_new(Max(self.top_left.x, other.top_left.x),
                                Max(self.top_left.y, other.top_left.y))
             bottom_right == Xy_new(Min(self.bottom_right.x, other.bottom_right.x),
                                    Min(self.bottom_right.y, other.bottom_right.y))
         IN  [top_left |-> top_left, size |-> Xy_sub(bottom_right, top_left),
              bottom_right |-> bottom_right]

\* CellIterator::next: whether an item is returned (Some), the item, and the
\* iterator's next_cell afterwards.
CellIterator_next(rectangle, next_cell) ==
    IF next_cell.y >= rectangle.bottom_right.y
    THEN [some |-> FALSE, next_cell |-> next_cell]
    ELSE LET stepped == Xy_new(next_cell.x + 1, next_cell.y)
         IN  [some |-> TRUE, item |-> next_cell,
              next_cell |-> IF stepped.x >= rectangle.bottom_right.x
                            THEN Xy_new(rectangle.top_left.x, stepped.y + 1)
                            ELSE stepped]

\* The items the iterator yields from next_cell on, in order.
RECURSIVE CellIterator_collect(_, _)
CellIterator_collect(rectangle, next_cell) ==
    LET step == CellIterator_next(rectangle, next_cell)
    IN  IF ~step.some THEN <<>>
        ELSE <<step.item>> \o CellIterator_collect(rectangle, step.next_cell)

Rectangle_iter_cells(self) == CellIterator_collect(self, self.top_left)

Directions == {"North", "East", "South", "West", "NorthEast", "NorthWest",
               "SouthEast", "SouthWest", "None"}

\* The panic of from_vector is the value "InvalidDirectionVector".
Direction_from_vector(v) ==
    CASE v.x = 0 /\ v.y = -1 -> "North"
      [] v.x = 1 /\ v.y = 0 -> "East"
      [] v.x = 0 /\ v.y = 1 -> "South"
      [] v.x = -1 /\ v.y = 0 -> "West"
      [] v.x = 1 /\ v.y = -1 -> "NorthEast"
      [] v.x = -1 /\ v.y = -1 -> "NorthWest"
      [] v.x = 1 /\ v.y = 1 -> "SouthEast"
      [] v.x = -1 /\ v.y = 1 -> "SouthWest"
      [] v.x = 0 /\ v.y = 0 -> "None"
      [] OTHER -> "InvalidDirectionVector"

Direction_vector(d) ==
    CASE d = "North" -> Xy_new(0, -1)
      [] d = "East" -> Xy_new(1, 0)
      [] d = "South" -> Xy_new(0, 1)
      [] d = "West" -> Xy_new(-1, 0)
      [] d = "NorthEast" -> Xy_new(1, -1)
      [] d = "NorthWest" -> Xy_new(-1, -1)
      [] d = "SouthEast" -> Xy_new(1, 1)
      [] d = "SouthWest" -> Xy_new(-1, 1)
      [] d = "None" -> Xy_new(0, 0)

Direction_from_indexWrapped(index) ==
    CASE index % 9 = 0 -> "North"
      [] index % 9 = 1 -> "East"
      [] index % 9 = 2 -> "South"
      [] index % 9 = 3 -> "West"
      [] index % 9 = 4 -> "NorthEast"
      [] index % 9 = 5 -> "NorthWest"
      [] index % 9 = 6 -> "SouthEast"
      [] index % 9 = 7 -> "SouthWest"
      [] OTHER -> "None"

Direction_from_index(index) ==
    CASE index = 0 -> "North"
      [] index = 1 -> "East"
      [] index = 2 -> "South"
      [] index = 3 -> "West"
      [] index = 4 -> "NorthEast"
      [] index = 5 -> "NorthWest"
      [] index = 6 -> "SouthEast"
      [] index = 7 -> "SouthWest"
      [] OTHER -> "None"

----------------------------------------------------------------------------
(* Random number generator.  A digest is kept as its three leading bytes,  *)
(* the only ones unsigned_byte is asked for.  SHA-256 is the table of the  *)
(* real digests along the chains of the all-zero seed and of the seeds of  *)
(* test_rng_tick, test_rng_special and test_rng.                           *)

Sha256(d) ==
    CASE d = <<0, 0, 0>> -> <<102, 104, 122>>
      [] d = <<102, 104, 122>> -> <<43, 50, 219>>
      [] d = <<43, 50, 219>> -> <<18, 119, 19>>
      [] d = <<18, 119, 19>> -> <<254, 21, 192>>
      [] d = <<254, 21, 192>> -> <<55, 109, 161>>
      [] d = <<55, 109, 161>> -> <<67, 145, 165>>
      [] d = <<67, 145, 165>> -> <<93, 26, 220>>
      [] d = <<93, 26, 220>> -> <<106, 155, 113>>
      [] d = <<106, 155, 113>> -> <<78, 110, 106>>
      [] d = <<78, 110, 106>> -> <<241, 53, 135>>
      [] d = <<241, 53, 135>> -> <<123, 31, 124>>
      [] d = <<123, 31, 124>> -> <<220, 178, 5>>
      [] d = <<210, 147, 229>> -> <<237, 193, 170>>
      [] d = <<237, 193, 170>> -> <<147, 11, 10>>
      [] d = <<147, 11, 10>> -> <<113, 221, 138>>
      [] d = <<113, 221, 138>> -> <<129, 183, 188>>
      [] d = <<129, 183, 188>> -> <<242, 7, 238>>
      [] d = <<242, 7, 238>> -> <<30, 219, 153>>
      [] d = <<30, 219, 153>> -> <<100, 22, 6>>
      [] d = <<100, 22, 6>> -> <<23, 104, 231>>
      [] d = <<23, 104, 231>> -> <<92, 55, 53>>
      [] d = <<92, 55, 53>> -> <<32, 130, 229>>
      [] d = <<32, 130, 229>> -> <<69, 146, 118>>
      [] d = <<69, 146, 118>> -> <<49, 99, 42>>
      [] d = <<20, 70, 180>> -> <<42, 25, 46>>
      [] d = <<42, 25, 46>> -> <<192, 138, 94>>
      [] d = <<192, 138, 94>> -> <<170, 65, 24>>
      [] d = <<170, 65, 24>> -> <<194, 28, 153>>
      [] d = <<194, 28, 153>> -> <<114, 132, 125>>
      [] d = <<114, 132, 125>> -> <<64, 42, 184>>
      [] d = <<64, 42, 184>> -> <<77, 105, 93>>
      [] d = <<77, 105, 93>> -> <<85, 81, 102>>
      [] d = <<85, 81, 102>> -> <<138, 68, 84>>
      [] d = <<138, 68, 84>> -> <<234, 150, 133>>
      [] d = <<234, 150, 133>> -> <<99, 225, 12>>
      [] d = <<99, 225, 12>> -> <<2, 175, 238>>
      [] d = <<95, 8, 35>> -> <<106, 212, 93>>
      [] d = <<106, 212, 93>> -> <<43, 69, 219>>
      [] d = <<43, 69, 219>> -> <<151, 202, 25>>
      [] d = <<151, 202, 25>> -> <<176, 248, 132>>
      [] d = <<176, 248, 132>> -> <<173, 180, 100>>
      [] d = <<173, 180, 100>> -> <<65, 0, 198>>
      [] d = <<65, 0, 198>> -> <<154, 224, 205>>
      [] d = <<154, 224, 205>> -> <<212, 175, 65>>
      [] d = <<212, 175, 65>> -> <<172, 254, 83>>
      [] d = <<172, 254, 83>> -> <<76, 193, 87>>
      [] d = <<76, 193, 87>> -> <<69, 222, 119>>
      [] d = <<69, 222, 119>> -> <<44, 180, 198>>

Rng_new(seed) == seed
Rng_tickStuck(digest) == digest
Rng_tick(digest) == Sha256(digest)
\* Bytes are numbered from 0 in the code, sequences from 1 here.
Rng_unsigned_byte(digest, position) == digest[position + 1]
Rng_is_coughing(digest, parameters) ==
    Rng_unsigned_byte(digest, 0) < parameters.cough_threshold
Rng_is_breathing(digest, parameters) ==
    Rng_unsigned_byte(digest, 1) < parameters.breath_threshold
Rng_acceleration(digest, parameters) ==
    Direction_from_index(Rng_unsigned_byte(digest, 2) \div parameters.acceleration_divisor)

----------------------------------------------------------------------------
(* Person.                                                                 *)

InfectionState_new(state, in_state_since) ==
    [state |-> state, in_state_since |-> in_state_since]

PersonInfo_new(name, position, seed, infection_state, direction) ==
    [name |-> name, position |-> position, seed |-> seed,
     infection_state |-> infection_state, direction |-> direction]

Person_newFresh(id, info, parameters) ==
    [id |-> id, parameters |-> parameters, name |-> info.name,
     position |-> info.position, direction |-> info.direction,
     infection_state |-> InfectionState_new(info.infection_state.state, 0),
     rng |-> Rng_new(info.seed)]

Person_new(id, info, parameters) ==
    [id |-> id, parameters |-> parameters, name |-> info.name,
     position |-> info.position, direction |-> info.direction,
     infection_state |-> info.infection_state, rng |-> Rng_new(info.seed)]

Person_state(self) == self.infection_state.state
Person_set_stateKeepsDwell(self, state) ==
    [self EXCEPT !.infection_state.state = state]
Person_set_state(self, state) ==
    [self EXCEPT !.infection_state = InfectionState_new(state, 0)]
Person_in_state_since(self) == self.infection_state.in_state_since
Person_is_susceptible(self) == Person_state(self) = "Susceptible"
Person_is_infected(self) == Person_state(self) = "Infected"
Person_is_infectiousSettled(self) ==
    Person_state(self) = "Infectious" /\ Person_in_state_since(self) > 0
Person_is_infectious(self) == Person_state(self) = "Infectious"
Person_is_recovered(self) == Person_state(self) = "Recovered"
Person_is_breathing(self) == Rng_is_breathing(self.rng, self.parameters)
Person_is_coughing(self) == Rng_is_coughing(self.rng, self.parameters)

Person_infectAlways(self) == Person_set_state(self, "Infected")

Person_infectInfectious(self) ==
    IF Person_is_susceptible(self) THEN Person_set_state(self, "Infectious") ELSE self

Person_infect(self) ==
    IF Person_is_susceptible(self) THEN Person_set_state(self, "Infected") ELSE self

Person_info(self) ==
    PersonInfo_new(self.name, self.position, self.rng, self.infection_state, self.direction)

Range(s) == {s[i] : i \in DOMAIN s}

\* The three checks of Person::tick, in the order of the code.
BumpsIntoWallClosed(grid, position) ==
    ~(/\ grid.top_left.x <= position.x
      /\ position.x <= grid.bottom_right.x
      /\ grid.top_left.y <= position.y
      /\ position.y <= grid.bottom_right.y)

BumpsIntoWall(grid, position) == ~Rectangle_contains(grid, position)

BumpsIntoObstacle(obstacles, position) ==
    \E o \in Range(obstacles) : Rectangle_contains(o, position)

BumpsIntoPersonNoGhosts(positions_, ghosts_, position) ==
    \E p \in Range(positions_) : p = position

BumpsIntoPersonNoPositions(positions_, ghosts_, position) ==
    \E p \in Range(ghosts_) : p = position

BumpsIntoPerson(positions_, ghosts_, position) ==
    \E p \in Range(positions_ \o ghosts_) : p = position

\* A bump: the direction becomes None and the tick returns early.
BumpKeepsDirection(self) == self

Bump(self) == [self EXCEPT !.direction = "None"]

Person_tick_stateLate(self) ==
    LET aged == [self EXCEPT !.infection_state.in_state_since = @ + 1]
    IN  IF Person_is_infected(aged)
           /\ Person_in_state_since(aged) > aged.parameters.incubation_time
        THEN Person_set_state(aged, "Infectious")
        ELSE IF Person_is_infectious(aged)
                /\ Person_in_state_since(aged) > aged.parameters.recovery_time
             THEN Person_set_state(aged, "Recovered")
             ELSE aged

\* The time-driven transition at the head of Person::tick.
Person_tick_state(self) ==
    LET aged == [self EXCEPT !.infection_state.in_state_since = @ + 1]
    IN  IF Person_is_infected(aged)
           /\ Person_in_state_since(aged) >= aged.parameters.incubation_time
        THEN Person_set_state(aged, "Infectious")
        ELSE IF Person_is_infectious(aged)
                /\ Person_in_state_since(aged) >= aged.parameters.recovery_time
             THEN Person_set_state(aged, "Recovered")
             ELSE aged

\* The velocity of Person::tick: direction plus acceleration, limited.
Person_velocity(direction, acceleration) ==
    Xy_limit(Xy_add(Direction_vector(direction), Direction_vector(acceleration)), -1, 1)

Person_tick(self, grid, obstacles, positions_, ghosts_) ==
    LET ticked == Person_tick_state([self EXCEPT !.rng = Rng_tick(self.rng)])
        velocity == Person_velocity(ticked.direction,
                                    Rng_acceleration(ticked.rng, ticked.parameters))
        position == Xy_add(ticked.position, velocity)
    IN  IF BumpsIntoWall(grid, position) THEN Bump(ticked)
        ELSE IF BumpsIntoObstacle(obstacles, position) THEN Bump(ticked)
        ELSE IF BumpsIntoPerson(positions_, ghosts_, position) THEN Bump(ticked)
        ELSE [ticked EXCEPT !.direction = Direction_from_vector(velocity),
                            !.position = position]

----------------------------------------------------------------------------
(* Scenario, statistics, output.                                           *)

Parameters_new(cough_threshold, breath_threshold, acceleration_divisor, recovery_time, infection_radius, incubation_time) ==
    [cough_threshold |-> cough_threshold, breath_threshold |-> breath_threshold,
     acceleration_divisor |-> acceleration_divisor, recovery_time |-> recovery_time,
     infection_radius |-> infection_radius, incubation_time |-> incubation_time]

Scenario_grid(s) == Rectangle_new(Xy_zero, s.grid_size)

Scenario_on_obstacle(s, cell) ==
    \E o \in Range(s.obstacles) : Rectangle_contains(o, cell)

Statistics_new(susceptible, infected, infectious, recovered) ==
    [susceptible |-> susceptible, infected |-> infected,
     infectious |-> infectious, recovered |-> recovered]

Statistics_addOverwrites(self, other) == other

\* Statistics::add.  The counts are u64; a sum of counts of persons never
\* exceeds the size of the population.
Statistics_add(self, other) ==
    [susceptible |-> self.susceptible + other.susceptible,
     infected |-> self.infected + other.infected,
     infectious |-> self.infectious + other.infectious,
     recovered |-> self.recovered + other.recovered]

Partition_new(x, y) == [x |-> x, y |-> y]

\* The rectangles a partition cuts the grid into, in row-major order: patch
\* (i, j) lies between consecutive cut lines.
Partition_patches(partition, grid_size) ==
    LET xs == <<0>> \o partition.x \o <<grid_size.x>>
        ys == <<0>> \o partition.y \o <<grid_size.y>>
        columns == Len(partition.x) + 1
        rows == Len(partition.y) + 1
    IN  [k \in 1..(columns * rows) |->
            LET i == ((k - 1) % columns) + 1
                j == ((k - 1) \div columns) + 1
            IN  Rectangle_new(Xy_new(xs[i], ys[j]),
                              Xy_new(xs[i + 1] - xs[i], ys[j + 1] - ys[j]))]

TraceEntry_new(pop) == [population |-> pop]

Output_newFinalPopulation(s, t, st) ==
    [scenario |-> [s EXCEPT !.population = IF t = <<>> THEN <<>> ELSE t[Len(t)].population],
     trace |-> t, statistics |-> st]
Output_new(s, t, st) == [scenario |-> s, trace |-> t, statistics |-> st]

----------------------------------------------------------------------------
(* may_propagate_from.                                                     *)

may_propagate_stepNeighbours(infection_radius, delta_x, delta_y) ==
    Abs(delta_x) <= 1 /\ Abs(delta_y) <= 1

\* The test that admits the offset (delta_x, delta_y) of a neighbour.
may_propagate_step(infection_radius, delta_x, delta_y) ==
    LET distance == Abs(delta_x + delta_y)
    IN  distance <= infection_radius \/ (Abs(delta_x) <= 1 /\ Abs(delta_y) <= 1)

\* The cells of an area that are not on an obstacle, in iteration order.
RECURSIVE may_propagate_free(_, _, _)
may_propagate_free(s, cells, k) ==
    IF k > Len(cells) THEN <<>>
    ELSE (IF Scenario_on_obstacle(s, cells[k]) THEN <<>> ELSE <<cells[k]>>)
         \o may_propagate_free(s, cells, k + 1)

\* The visit without the test that the neighbour is not yet in the region.
RECURSIVE may_propagate_visitAgain(_, _, _, _, _)
may_propagate_visitAgain(s, cell, k, frontier, region) ==
    LET infection_radius == s.parameters.infection_radius
        side == 2 * infection_radius + 1
        delta_x == ((k - 1) \div side) - infection_radius
        delta_y == ((k - 1) % side) - infection_radius
        neighbor == Xy_add(cell, Xy_new(delta_x, delta_y))
    IN  IF k > side * side THEN [frontier |-> frontier, region |-> region]
        ELSE IF /\ may_propagate_step(infection_radius, delta_x, delta_y)
                /\ Rectangle_contains(Scenario_grid(s), neighbor)
                /\ ~Scenario_on_obstacle(s, neighbor)
             THEN may_propagate_visitAgain(s, cell, k + 1, Append(frontier, neighbor),
                                           region \cup {neighbor})
             ELSE may_propagate_visitAgain(s, cell, k + 1, frontier, region)

\* The two inner loops for one popped cell, from the k-th offset on; the
\* offsets run over delta_x (outer) and delta_y (inner) in
\* -infection_radius..infection_radius.
RECURSIVE may_propagate_visit(_, _, _, _, _)
may_propagate_visit(s, cell, k, frontier, region) ==
    LET infection_radius == s.parameters.infection_radius
        side == 2 * infection_radius + 1
        delta_x == ((k - 1) \div side) - infection_radius
        delta_y == ((k - 1) % side) - infection_radius
        neighbor == Xy_add(cell, Xy_new(delta_x, delta_y))
    IN  IF k > side * side THEN [frontier |-> frontier, region |-> region]
        ELSE IF /\ may_propagate_step(infection_radius, delta_x, delta_y)
                /\ neighbor \notin region
                /\ Rectangle_contains(Scenario_grid(s), neighbor)
                /\ ~Scenario_on_obstacle(s, neighbor)
             THEN may_propagate_visit(s, cell, k + 1, Append(frontier, neighbor),
                                      region \cup {neighbor})
             ELSE may_propagate_visit(s, cell, k + 1, frontier, region)

\* The while loop: pop the last cell of the frontier and visit it.
RECURSIVE may_propagate_grow(_, _, _)
may_propagate_grow(s, frontier, region) ==
    IF frontier = <<>> THEN region
    ELSE LET visited == may_propagate_visit(s, frontier[Len(frontier)], 1,
                                            SubSeq(frontier, 1, Len(frontier) - 1), region)
         IN  may_propagate_grow(s, visited.frontier, visited.region)

may_propagate_from(s, source, target) ==
    LET frontier == may_propagate_free(s, Rectangle_iter_cells(target), 1)
        region == may_propagate_grow(s, frontier, Range(frontier))
    IN  \E k \in DOMAIN Rectangle_iter_cells(source) :
            /\ ~Scenario_on_obstacle(s, Rectangle_iter_cells(source)[k])
            /\ Rectangle_iter_cells(source)[k] \in region

----------------------------------------------------------------------------
(* The serial engine.                                                      *)

Slug_count_personsAnywhere(pop, state, area) ==
    Cardinality({i \in DOMAIN pop : Person_state(pop[i]) = state})

\* count_persons with the predicate "in state `state` and inside `area`".
Slug_count_persons(pop, state, area) ==
    Cardinality({i \in DOMAIN pop :
                    Person_state(pop[i]) = state /\ Rectangle_contains(area, pop[i].position)})

Slug_extend_statistics(s, pop, st) ==
    [key \in DOMAIN st |->
        Append(st[key],
               Statistics_new(Slug_count_persons(pop, "Susceptible", s.queries[key].area),
                              Slug_count_persons(pop, "Infected", s.queries[key].area),
                              Slug_count_persons(pop, "Infectious", s.queries[key].area),
                              Slug_count_persons(pop, "Recovered", s.queries[key].area)))]

\* The partial counts of one patch for a query: the persons inside the
\* intersection of the query area with the rectangle of the patch.
Patch_statistics(pop, area, rectangle) ==
    IF Rectangle_overlaps(area, rectangle)
    THEN LET part == Rectangle_intersect(area, rectangle)
         IN  Statistics_new(Slug_count_persons(pop, "Susceptible", part),
                            Slug_count_persons(pop, "Infected", part),
                            Slug_count_persons(pop, "Infectious", part),
                            Slug_count_persons(pop, "Recovered", part))
    ELSE Statistics_new(0, 0, 0, 0)

Slug_extend_traceAlways(s, pop, t) ==
    Append(t, TraceEntry_new([i \in DOMAIN pop |-> Person_info(pop[i])]))

Slug_extend_traceReversed(s, pop, t) ==
    IF s.trace
    THEN Append(t, TraceEntry_new([i \in DOMAIN pop |-> Person_info(pop[Len(pop) + 1 - i])]))
    ELSE t

Slug_extend_trace(s, pop, t) ==
    IF s.trace
    THEN Append(t, TraceEntry_new([i \in DOMAIN pop |-> Person_info(pop[i])]))
    ELSE t

Slug_infect_pairStrict(s, pop, i, j) ==
    LET delta_x == Abs(pop[i].position.x - pop[j].position.x)
        delta_y == Abs(pop[i].position.y - pop[j].position.y)
        distance == delta_x + delta_y
        first == IF Person_is_infectious(pop[i]) /\ Person_is_coughing(pop[i])
                    /\ Person_is_breathing(pop[j])
                 THEN [pop EXCEPT ![j] = Person_infect(pop[j])]
                 ELSE pop
        second == IF Person_is_infectious(first[j]) /\ Person_is_coughing(first[j])
                     /\ Person_is_breathing(first[i])
                  THEN [first EXCEPT ![i] = Person_infect(first[i])]
                  ELSE first
    IN  IF distance < s.parameters.infection_radius THEN second ELSE pop

\* Body of the pair loop of Slug::tick for the pair (i, j); indices from 1.
Slug_infect_pair(s, pop, i, j) ==
    LET delta_x == Abs(pop[i].position.x - pop[j].position.x)
        delta_y == Abs(pop[i].position.y - pop[j].position.y)
        distance == delta_x + delta_y
        first == IF Person_is_infectious(pop[i]) /\ Person_is_coughing(pop[i])
                    /\ Person_is_breathing(pop[j])
                 THEN [pop EXCEPT ![j] = Person_infect(pop[j])]
                 ELSE pop
        second == IF Person_is_infectious(first[j]) /\ Person_is_coughing(first[j])
                     /\ Person_is_breathing(first[i])
                  THEN [first EXCEPT ![i] = Person_infect(first[i])]
                  ELSE first
    IN  IF distance <= s.parameters.infection_radius THEN second ELSE pop

RECURSIVE Slug_infect_loop(_, _, _, _)
Slug_infect_loop(s, pop, i, j) ==
    IF i > Len(pop) THEN pop
    ELSE IF j > Len(pop) THEN Slug_infect_loop(s, pop, i + 1, i + 2)
    ELSE Slug_infect_loop(s, Slug_infect_pair(s, pop, i, j), i, j + 1)

----------------------------------------------------------------------------
(* Scenarios explored.                                                     *)

GridSize == Xy_new(GridWidth, GridHeight)
Grid == Rectangle_new(Xy_zero, GridSize)
Cells == {Xy_new(x, y) : x \in 0..(GridWidth - 1), y \in 0..(GridHeight - 1)}

DefaultParameters == Parameters_new(128, 128, 20, 2, 1, 1)

ParameterSets == { DefaultParameters, Parameters_new(256, 256, 20, 2, 2, 2) }

ObstacleSets == { <<>>, <<Rectangle_new(Xy_new(1, 0), Xy_new(1, 1))>> }

Queries ==
    [key \in {"all", "left"} |->
        [area |-> IF key = "all" THEN Grid
                  ELSE Rectangle_new(Xy_zero, Xy_new(1, GridHeight))]]

Names == <<"alice", "bob", "carol", "dave">>

\* Direction, seed and infection state of the persons of a scenario: an
\* infectious person heading east, a susceptible one heading west that has
\* been in its state for one tick, and an infected one at rest.
Profiles ==
    { [direction |-> "East", seed |-> <<102, 104, 122>>,
       infection_state |-> InfectionState_new("Infectious", 0)],
      [direction |-> "West", seed |-> <<114, 132, 125>>,
       infection_state |-> InfectionState_new("Susceptible", 1)],
      [direction |-> "None", seed |-> <<95, 8, 35>>,
       infection_state |-> InfectionState_new("Infected", 0)] }

Populations ==
    { [i \in 1..NumPersons |->
          PersonInfo_new(Names[i], pos[i], prof[i].seed, prof[i].infection_state,
                         prof[i].direction)] :
      pos \in [1..NumPersons -> Cells], prof \in [1..NumPersons -> Profiles] }

\* Scenarios whose persons stand on pairwise distinct free cells of the grid.
WellFormed(s) ==
    /\ \A i \in DOMAIN s.population :
          /\ Rectangle_contains(Scenario_grid(s), s.population[i].position)
          /\ ~Scenario_on_obstacle(s, s.population[i].position)
    /\ \A i, j \in DOMAIN s.population :
          i # j => s.population[i].position # s.population[j].position

\* Untraced runs are explored on the empty grid with the default parameters.
Explored(s) == s.trace \/ (s.obstacles = <<>> /\ s.parameters = DefaultParameters)

Scenarios ==
    { s \in [name : {"scenario"}, parameters : ParameterSets, ticks : {MaxTicks},
             grid_size : {GridSize}, trace : BOOLEAN, obstacles : ObstacleSets,
             queries : {Queries}, population : Populations] :
         WellFormed(s) /\ Explored(s) }

----------------------------------------------------------------------------
(* State machine of creep: Slug::new, then `ticks` times Slug::tick, then  *)
(* Slug::into_output.                                                      *)

\* Slug::new, the first statement of creep.
Slug_new(s) ==
    LET pop == [i \in DOMAIN s.population |->
                   Person_new(i - 1, s.population[i], s.parameters)]
    IN  /\ scenario = s
        /\ population = pop
        /\ positions = [i \in DOMAIN pop |-> pop[i].position]
        /\ ghosts = <<>>
        /\ trace = Slug_extend_trace(s, pop, <<>>)
        /\ statistics = Slug_extend_statistics(s, pop, [key \in DOMAIN s.queries |-> <<>>])

Init ==
    /\ \E s \in Scenarios : Slug_new(s)
    /\ ticks_done = 0
    /\ idx = 0
    /\ pc = "creep"
    /\ output = "none"
    /\ launches = <<>>
    /\ call = [fn |-> "none"]

\* One iteration of the person loop of Slug::tick.
Slug_tick_person ==
    /\ pc = "creep"
    /\ ticks_done < scenario.ticks
    /\ idx < Len(population)
    /\ LET person == population[idx + 1]
           pushed == Append(ghosts, person.position)
           ticked == Person_tick(person, Scenario_grid(scenario), scenario.obstacles,
                                 positions, pushed)
       IN  /\ ghosts' = pushed
           /\ population' = [population EXCEPT ![idx + 1] = ticked]
           /\ positions' = [positions EXCEPT ![idx + 1] = ticked.position]
    /\ idx' = idx + 1
    /\ UNCHANGED <<scenario, trace, statistics, ticks_done, pc, output, launches, call>>

\* The rest of Slug::tick: the ghosts are cleared, the pair loop infects,
\* the output is extended; the loop of creep then counts the tick.
Slug_tick_infect ==
    /\ pc = "creep"
    /\ ticks_done < scenario.ticks
    /\ idx = Len(population)
    /\ LET infected == Slug_infect_loop(scenario, population, 1, 2)
       IN  /\ population' = infected
           /\ trace' = Slug_extend_trace(scenario, infected, trace)
           /\ statistics' = Slug_extend_statistics(scenario, infected, statistics)
    /\ ghosts' = <<>>
    /\ idx' = 0
    /\ ticks_done' = ticks_done + 1
    /\ UNCHANGED <<scenario, positions, pc, output, launches, call>>

\* creep returns Slug::into_output once the loop has run `ticks` times.
creep_return ==
    /\ pc = "creep"
    /\ ticks_done = scenario.ticks
    /\ output' = Output_new(scenario, trace, statistics)
    /\ pc' = "done"
    /\ UNCHANGED <<scenario, population, trace, statistics, positions, ghosts,
                   ticks_done, idx, launches, call>>

Next == Slug_tick_person \/ Slug_tick_infect \/ creep_return

Spec == Init /\ [][Next]_vars

----------------------------------------------------------------------------
(* Runs of the serial engine long enough for a whole course of the         *)
(* infection: traced scenarios on the free grid with the persons lined up  *)
(* on its first cells in row-major order.                                  *)

\* Number of ticks of these runs.
TimingTicks == 5

\* Incubation 2 and recovery 3, and incubation 1 and recovery 1.
TimingParameterSets ==
    { Parameters_new(128, 128, 20, 3, 1, 2), Parameters_new(128, 128, 20, 1, 1, 1) }

CellAt(k) == Xy_new((k - 1) % GridWidth, (k - 1) \div GridWidth)

TimingScenarios ==
    { [name |-> "timing", parameters |-> par, ticks |-> TimingTicks,
       grid_size |-> GridSize, trace |-> TRUE, obstacles |-> <<>>, queries |-> Queries,
       population |->
           [i \in 1..NumPersons |->
               PersonInfo_new(Names[i], CellAt(i), prof[i].seed, prof[i].infection_state,
                              prof[i].direction)]] :
      par \in TimingParameterSets, prof \in [1..NumPersons -> Profiles] }

InitTiming ==
    /\ \E s \in TimingScenarios : Slug_new(s)
    /\ ticks_done = 0
    /\ idx = 0
    /\ pc = "creep"
    /\ output = "none"
    /\ launches = <<>>
    /\ call = [fn |-> "none"]

SpecTiming == InitTiming /\ [][Next]_vars

----------------------------------------------------------------------------
(* Runs of the serial engine with enough persons for the pair loop to      *)
(* visit several pairs: traced scenarios on the free grid with the persons *)
(* lined up on its first cells in row-major order.                         *)

ResolutionPersons == 3

ResolutionScenarios ==
    { [name |-> "resolution", parameters |-> par, ticks |-> MaxTicks,
       grid_size |-> GridSize, trace |-> TRUE, obstacles |-> <<>>, queries |-> Queries,
       population |->
           [i \in 1..ResolutionPersons |->
               PersonInfo_new(Names[i], CellAt(i), prof[i].seed, prof[i].infection_state,
                              prof[i].direction)]] :
      par \in ParameterSets, prof \in [1..ResolutionPersons -> Profiles] }

InitResolution ==
    /\ \E s \in ResolutionScenarios : Slug_new(s)
    /\ ticks_done = 0
    /\ idx = 0
    /\ pc = "creep"
    /\ output = "none"
    /\ launches = <<>>
    /\ call = [fn |-> "none"]

SpecResolution == InitResolution /\ [][Next]_vars

----------------------------------------------------------------------------
(* Short runs of the serial engine from every placement of the persons on *)
(* distinct cells of the free grid, traced.                                *)

OrderTicks == 1

OrderScenarios ==
    { s \in [name : {"order"}, parameters : {DefaultParameters}, ticks : {OrderTicks},
             grid_size : {GridSize}, trace : {TRUE}, obstacles : {<<>>},
             queries : {Queries}, population : Populations] :
         WellFormed(s) }

InitOrder ==
    /\ \E s \in OrderScenarios : Slug_new(s)
    /\ ticks_done = 0
    /\ idx = 0
    /\ pc = "creep"
    /\ output = "none"
    /\ launches = <<>>
    /\ call = [fn |-> "none"]

SpecOrder == InitOrder /\ [][Next]_vars

----------------------------------------------------------------------------
(* Calls of the functions of the value model on rectangles, cells,         *)
(* directions and indices drawn from bounded sets.  The variable `call`    *)
(* holds the call made: the function, its arguments and what it returned.  *)

\* Largest coordinate of the top-left corner of a rectangle, and largest
\* width and height.
MaxCoordinate == 2
MaxSize == 2
\* Largest index handed to from_index.
MaxIndex == 12

Rectangles ==
    { Rectangle_new(Xy_new(x, y), Xy_new(w, h)) :
        x \in 0..MaxCoordinate, y \in 0..MaxCoordinate, w \in 0..MaxSize, h \in 0..MaxSize }

\* The cells around and inside these rectangles.
ProbeCells == { Xy_new(x, y) : x \in -1..(MaxCoordinate + MaxSize),
                               y \in -1..(MaxCoordinate + MaxSize) }

UnitVectors == { Xy_new(x, y) : x \in -1..1, y \in -1..1 }

InitGeometry ==
    /\ scenario = "none"
    /\ population = <<>>
    /\ trace = <<>>
    /\ statistics = <<>>
    /\ positions = <<>>
    /\ ghosts = <<>>
    /\ ticks_done = 0
    /\ idx = 0
    /\ pc = "geometry"
    /\ output = "none"
    /\ launches = <<>>
    /\ call = [fn |-> "none"]

Call_from_index ==
    /\ call.fn = "none"
    /\ \E index \in 0..MaxIndex :
          call' = [fn |-> "Direction::from_index", index |-> index,
                   direction |-> Direction_from_index(index),
                   vector |-> Direction_vector(Direction_from_index(index))]
    /\ UNCHANGED <<slug_vars, launches>>

Call_vector ==
    /\ call.fn = "none"
    /\ \E d \in Directions :
          call' = [fn |-> "Direction::vector", direction |-> d,
                   vector |-> Direction_vector(d),
                   back |-> Direction_from_vector(Direction_vector(d))]
    /\ UNCHANGED <<slug_vars, launches>>

Call_from_vector ==
    /\ call.fn = "none"
    /\ \E v \in UnitVectors :
          call' = [fn |-> "Direction::from_vector", vector |-> v,
                   direction |-> Direction_from_vector(v),
                   back |-> Direction_vector(Direction_from_vector(v))]
    /\ UNCHANGED <<slug_vars, launches>>

Call_contains ==
    /\ call.fn = "none"
    /\ \E r \in Rectangles, cell \in ProbeCells :
          call' = [fn |-> "Rectangle::contains", self |-> r, cell |-> cell,
                   result |-> Rectangle_contains(r, cell)]
    /\ UNCHANGED <<slug_vars, launches>>

Call_overlaps ==
    /\ call.fn = "none"
    /\ \E a \in Rectangles, b \in Rectangles :
          call' = [fn |-> "Rectangle::overlaps", self |-> a, other |-> b,
                   result |-> Rectangle_overlaps(a, b),
                   flipped |-> Rectangle_overlaps(b, a)]
    /\ UNCHANGED <<slug_vars, launches>>

Call_intersect ==
    /\ call.fn = "none"
    /\ \E a \in Rectangles, b \in Rectangles :
          call' = [fn |-> "Rectangle::intersect", self |-> a, other |-> b,
                   result |-> Rectangle_intersect(a, b),
                   flipped |-> Rectangle_intersect(b, a)]
    /\ UNCHANGED <<slug_vars, launches>>

Call_iter_cells ==
    /\ call.fn = "none"
    /\ \E r \in Rectangles :
          call' = [fn |-> "Rectangle::iter_cells", self |-> r,
                   result |-> Rectangle_iter_cells(r)]
    /\ UNCHANGED <<slug_vars, launches>>

\* The movement of Person::tick on a free cell: the velocity of a direction
\* and an acceleration, the cell it leads to and the direction it gives.
Call_velocity ==
    /\ call.fn = "none"
    /\ \E direction \in Directions, acceleration \in Directions, position \in ProbeCells :
          LET velocity == Person_velocity(direction, acceleration)
          IN  call' = [fn |-> "Person::tick", direction |-> direction,
                       acceleration |-> acceleration, old_position |-> position,
                       velocity |-> velocity, position |-> Xy_add(position, velocity),
                       result |-> Direction_from_vector(velocity)]
    /\ UNCHANGED <<slug_vars, launches>>

NextGeometry ==
    \/ Call_from_index \/ Call_vector \/ Call_from_vector
    \/ Call_contains \/ Call_overlaps \/ Call_intersect \/ Call_iter_cells
    \/ Call_velocity

SpecGeometry == InitGeometry /\ [][NextGeometry]_vars

----------------------------------------------------------------------------
(* Calls of may_propagate_from on square grids with obstacles, for every   *)
(* infection radius from 0 on.                                             *)

\* Side of the grid.
PropagationSide == 3
\* Largest infection radius.
MaxRadius == 2

\* No obstacle; two obstacles that leave the corner cell (0, 0) only its
\* diagonal neighbour; a wall one cell thick from top to bottom; obstacles
\* that cut the grid into pieces more than one step apart; obstacles that
\* leave the corner cell (0, 0) no free cell within two cells.
ObstacleLayouts ==
    { <<>>,
      <<Rectangle_new(Xy_new(1, 0), Xy_new(1, 1)), Rectangle_new(Xy_new(0, 1), Xy_new(1, 1))>>,
      <<Rectangle_new(Xy_new(1, 0), Xy_new(1, PropagationSide))>>,
      <<Rectangle_new(Xy_new(0, 1), Xy_new(PropagationSide, 1)),
        Rectangle_new(Xy_new(0, 0), Xy_new(2, 1)),
        Rectangle_new(Xy_new(1, 2), Xy_new(PropagationSide - 1, 1))>>,
      <<Rectangle_new(Xy_new(1, 0), Xy_new(PropagationSide - 1, 1)),
        Rectangle_new(Xy_new(0, 1), Xy_new(PropagationSide, 1)),
        Rectangle_new(Xy_new(0, 2), Xy_new(2, 1))>> }

PropagationScenarios ==
    { [name |-> "propagation", parameters |-> Parameters_new(128, 128, 20, 2, radius, 1),
       ticks |-> 0, grid_size |-> Xy_new(PropagationSide, PropagationSide),
       trace |-> FALSE, obstacles |-> obstacles, queries |-> <<>>, population |-> <<>>] :
      radius \in 0..MaxRadius, obstacles \in ObstacleLayouts }

\* The areas asked about: every cell of the grid, its left column, its top
\* row and the whole grid.
PropagationAreas ==
    { Rectangle_new(Xy_new(x, y), Xy_new(1, 1)) :
        x \in 0..(PropagationSide - 1), y \in 0..(PropagationSide - 1) }
    \cup { Rectangle_new(Xy_zero, Xy_new(1, PropagationSide)),
           Rectangle_new(Xy_zero, Xy_new(PropagationSide, 1)),
           Rectangle_new(Xy_zero, Xy_new(PropagationSide, PropagationSide)) }

InitPropagation ==
    /\ scenario \in PropagationScenarios
    /\ population = <<>>
    /\ trace = <<>>
    /\ statistics = <<>>
    /\ positions = <<>>
    /\ ghosts = <<>>
    /\ ticks_done = 0
    /\ idx = 0
    /\ pc = "propagation"
    /\ output = "none"
    /\ launches = <<>>
    /\ call = [fn |-> "none"]

Call_may_propagate_from ==
    /\ call.fn = "none"
    /\ pc = "propagation"
    /\ \E source \in PropagationAreas, target \in PropagationAreas :
          call' = [fn |-> "may_propagate_from", source |-> source, target |-> target,
                   result |-> may_propagate_from(scenario, source, target)]
    /\ UNCHANGED <<slug_vars, launches>>

\* Rectangles within the bounds of the grid that contain no cell: of width
\* zero on the left and on the right edge, and of height zero.
EmptyAreas ==
    { Rectangle_new(Xy_new(0, 0), Xy_new(0, 1)),
      Rectangle_new(Xy_new(PropagationSide, 0), Xy_new(0, 1)),
      Rectangle_new(Xy_new(0, PropagationSide), Xy_new(1, 0)) }

\* may_propagate_from with an area that contains no cell on one side or on
\* both, called in both directions.
Call_may_propagate_from_empty ==
    /\ call.fn = "none"
    /\ pc = "propagation"
    /\ \E source \in PropagationAreas \cup EmptyAreas,
          target \in PropagationAreas \cup EmptyAreas :
          /\ source \in EmptyAreas \/ target \in EmptyAreas
          /\ call' = [fn |-> "may_propagate_from (empty area)",
                      source |-> source, target |-> target,
                      result |-> may_propagate_from(scenario, source, target),
                      flipped |-> may_propagate_from(scenario, target, source)]
    /\ UNCHANGED <<slug_vars, launches>>

NextPropagation == Call_may_propagate_from \/ Call_may_propagate_from_empty

SpecPropagation == InitPropagation /\ [][NextPropagation]_vars

----------------------------------------------------------------------------
(* may_propagate_from step by step: the target loop, one step per          *)
(* iteration of the while loop, and the source loop.  The call record      *)
(* holds the frontier and the region, and the list of every cell pushed    *)
(* onto the frontier so far.                                               *)

\* The targets asked about: two opposite corner cells, the left column,
\* the top row, the whole grid, the areas without a cell and an area that
\* reaches over the right edge of the grid.
FrontierTargets ==
    { Rectangle_new(Xy_zero, Xy_new(1, 1)),
      Rectangle_new(Xy_new(PropagationSide - 1, PropagationSide - 1), Xy_new(1, 1)),
      Rectangle_new(Xy_zero, Xy_new(1, PropagationSide)),
      Rectangle_new(Xy_zero, Xy_new(PropagationSide, 1)),
      Rectangle_new(Xy_zero, Xy_new(PropagationSide, PropagationSide)),
      Rectangle_new(Xy_new(PropagationSide - 1, 0), Xy_new(2, 1)) }
    \cup EmptyAreas

\* The source asked about: the left column.
FrontierSources == { Rectangle_new(Xy_zero, Xy_new(1, PropagationSide)) }

\* The target loop: every target cell not on an obstacle is pushed onto
\* the frontier and inserted into the region.  The record keeps the cells
\* the source loop will iterate over.
Propagate_targets ==
    /\ call.fn = "none"
    /\ pc = "propagation"
    /\ \E source \in FrontierSources, target \in FrontierTargets :
          LET frontier == may_propagate_free(scenario, Rectangle_iter_cells(target), 1)
          IN  call' = [fn |-> "may_propagate_from (loop)", state |-> "growing",
                      source |-> source, target |-> target,
                      source_cells |-> Rectangle_iter_cells(source),
                      frontier |-> frontier, region |-> Range(frontier),
                      pushed |-> frontier, result |-> FALSE]
    /\ UNCHANGED <<slug_vars, launches>>

\* One iteration of the while loop: the last cell of the frontier is
\* popped and visited; the cells pushed by the visit are those behind the
\* rest of the old frontier.
Propagate_pop ==
    /\ call.fn = "may_propagate_from (loop)"
    /\ call.state = "growing"
    /\ call.frontier # <<>>
    /\ LET rest == SubSeq(call.frontier, 1, Len(call.frontier) - 1)
           visited == may_propagate_visit(scenario, call.frontier[Len(call.frontier)], 1,
                                          rest, call.region)
       IN  call' = [call EXCEPT !.frontier = visited.frontier,
                                !.region = visited.region,
                                !.pushed = call.pushed
                                           \o SubSeq(visited.frontier, Len(rest) + 1,
                                                     Len(visited.frontier))]
    /\ UNCHANGED <<slug_vars, launches>>

\* The frontier is empty: the source loop, and the return.
Propagate_return ==
    /\ call.fn = "may_propagate_from (loop)"
    /\ call.state = "growing"
    /\ call.frontier = <<>>
    /\ call' = [call EXCEPT !.state = "returned",
                            !.result = \E k \in DOMAIN call.source_cells :
                                /\ ~Scenario_on_obstacle(scenario, call.source_cells[k])
                                /\ call.source_cells[k] \in call.region]
    /\ UNCHANGED <<slug_vars, launches>>

NextFrontier == Propagate_targets \/ Propagate_pop \/ Propagate_return

\* A call that was started keeps running.
SpecFrontier == InitPropagation /\ [][NextFrontier]_vars /\ WF_vars(NextFrontier)

----------------------------------------------------------------------------
(* Sums of per-patch statistics with Statistics::add.  The population is   *)
(* the one Slug::new builds; the partition, the query and the order in     *)
(* which the patches are added are free.                                   *)

\* The strictly ascending list of the members of a set of coordinates.
Ascending(S) ==
    CHOOSE seq \in [1..Cardinality(S) -> S] :
        \A i, j \in 1..Cardinality(S) : i < j => seq[i] < seq[j]

Partitions ==
    { Partition_new(Ascending(X), Ascending(Y)) :
          X \in SUBSET (1..(GridWidth - 1)), Y \in SUBSET (1..(GridHeight - 1)) }

\* Query areas: the grid, its left column, and an area that leaves the grid.
AggregationQueries ==
    [key \in {"all", "left", "inner"} |->
        [area |-> IF key = "all" THEN Grid
                  ELSE IF key = "left" THEN Rectangle_new(Xy_zero, Xy_new(1, GridHeight))
                  ELSE Rectangle_new(Xy_new(1, 1), GridSize)]]

\* Scenarios of zero ticks whose persons stand on distinct cells, in
\* row-major order of their cells, with the profiles taken in turn.
AggregationScenarios ==
    { [name |-> "aggregation", parameters |-> DefaultParameters, ticks |-> 0,
       grid_size |-> GridSize, trace |-> FALSE, obstacles |-> <<>>,
       queries |-> AggregationQueries,
       population |->
           [i \in 1..NumPersons |->
               LET prof == CHOOSE pr \in Profiles :
                               pr.infection_state.state =
                                   <<"Infectious", "Susceptible", "Infected">>[((i - 1) % 3) + 1]
               IN  PersonInfo_new(Names[i], pos[i], prof.seed, prof.infection_state,
                                  prof.direction)]] :
      pos \in { f \in [1..NumPersons -> Cells] :
                  \A i, j \in 1..NumPersons :
                      i < j => (f[i].y < f[j].y \/ (f[i].y = f[j].y /\ f[i].x < f[j].x)) } }

InitAggregation ==
    /\ \E s \in AggregationScenarios : Slug_new(s)
    /\ ticks_done = 0
    /\ idx = 0
    /\ pc = "aggregation"
    /\ output = "none"
    /\ launches = <<>>
    /\ call = [fn |-> "none"]

\* The scheduler starts the sum of one query from all-zero statistics.
Call_new ==
    /\ pc = "aggregation"
    /\ call.fn = "none"
    /\ \E partition \in Partitions, key \in DOMAIN scenario.queries :
          LET patches == Partition_patches(partition, scenario.grid_size)
          IN  call' = [fn |-> "Statistics::add", key |-> key, patches |-> patches,
                       remaining |-> DOMAIN patches,
                       sum |-> Statistics_new(0, 0, 0, 0)]
    /\ UNCHANGED <<slug_vars, launches>>

\* Statistics::add of the partial counts of one more patch, in any order.
Call_add ==
    /\ pc = "aggregation"
    /\ call.fn = "Statistics::add"
    /\ \E patch_id \in call.remaining :
          call' = [call EXCEPT
                      !.remaining = @ \ {patch_id},
                      !.sum = Statistics_add(@, Patch_statistics(population,
                                                                 scenario.queries[call.key].area,
                                                                 call.patches[patch_id]))]
    /\ UNCHANGED <<slug_vars, launches>>

NextAggregation == Call_new \/ Call_add

SpecAggregation == InitAggregation /\ [][NextAggregation]_vars

----------------------------------------------------------------------------
(* The output checker of the tests.  A problem is kept as a record of the  *)
(* kind of its message and of the values the message is formatted from.    *)

compare_person_info(person_info, expected, tick, person_id) ==
    IF person_info # expected
    THEN <<[problem |-> "person information mismatch", tick |-> tick,
            person_id |-> person_id]>>
    ELSE <<>>

\* The loop of compare_population over zip(population, expected).
RECURSIVE compare_population_zip(_, _, _, _)
compare_population_zip(pop, expected, tick, k) ==
    IF k > Min(Len(pop), Len(expected))
    THEN <<>>
    ELSE compare_person_info(pop[k], expected[k], tick, k - 1)
         \o compare_population_zip(pop, expected, tick, k + 1)

compare_population(pop, expected, tick) ==
    (IF Len(pop) # Len(expected)
     THEN <<[problem |-> "expected population of size", expected |-> Len(expected),
             got |-> Len(pop), tick |-> tick]>>
     ELSE <<>>)
    \o compare_population_zip(pop, expected, tick, 1)

\* The loop of compare_trace over zip(trace, expected).
RECURSIVE compare_trace_zip(_, _, _)
compare_trace_zip(t, expected, k) ==
    IF k > Min(Len(t), Len(expected))
    THEN <<>>
    ELSE compare_population(t[k].population, expected[k].population, k - 1)
         \o compare_trace_zip(t, expected, k + 1)

compare_traceNoLength(t, expected) == compare_trace_zip(t, expected, 1)

compare_trace(t, expected) ==
    (IF Len(t) # Len(expected)
     THEN <<[problem |-> "expected trace of length", expected |-> Len(expected),
             got |-> Len(t)]>>
     ELSE <<>>)
    \o compare_trace_zip(t, expected, 1)

\* The loop of compare_statistics over zip(entries, expected_entries).
RECURSIVE compare_statistics_zip(_, _, _, _)
compare_statistics_zip(entries, expected_entries, query_key, k) ==
    IF k > Min(Len(entries), Len(expected_entries))
    THEN <<>>
    ELSE (IF entries[k] # expected_entries[k]
          THEN <<[problem |-> "statistics for query incorrect", query_key |-> query_key,
                  tick |-> k - 1, expected |-> expected_entries[k], got |-> entries[k]]>>
          ELSE <<>>)
         \o compare_statistics_zip(entries, expected_entries, query_key, k + 1)

\* One iteration of the loop of compare_statistics over the query keys.
compare_statistics_key(st, expected, query_key) ==
    IF query_key \notin DOMAIN expected
    THEN <<[problem |-> "non-existent query", query_key |-> query_key]>>
    ELSE IF query_key \notin DOMAIN st
    THEN <<[problem |-> "no statistics for query", query_key |-> query_key]>>
    ELSE (IF Len(st[query_key]) # Len(expected[query_key])
          THEN <<[problem |-> "expected statistics trace of length",
                  expected |-> Len(expected[query_key]), got |-> Len(st[query_key])]>>
          ELSE <<>>)
         \o compare_statistics_zip(st[query_key], expected[query_key], query_key, 1)

\* compare_statistics.  The keys of both maps are gathered in a HashSet,
\* whose iteration order is not fixed: `query_keys` is one order of them.
RECURSIVE compare_statistics(_, _, _)
compare_statistics(st, expected, query_keys) ==
    IF query_keys = <<>>
    THEN <<>>
    ELSE compare_statistics_key(st, expected, Head(query_keys))
         \o compare_statistics(st, expected, Tail(query_keys))

\* The orders in which a HashSet of keys may be iterated.
Orders(S) ==
    { seq \in [1..Cardinality(S) -> S] :
          \A i, j \in 1..Cardinality(S) : i # j => seq[i] # seq[j] }

\* Checker::check and the function check: the problems of a fresh Checker.
Checker_check(out, expected, query_keys) ==
    compare_trace(out.trace, expected.trace)
    \o compare_statistics(out.statistics, expected.statistics, query_keys)

----------------------------------------------------------------------------
(* The concurrent engine.  The body of launch is two panics: panic! in the *)
(* starship branch and todo! in the rocket branch.  Neither the scenario   *)
(* nor the padding nor the validator is read.                              *)

launch(s, padding, starship) ==
    IF starship
    THEN [kind |-> "Panic", message |-> "Starship has not been implemented."]
    ELSE [kind |-> "Panic",
          message |-> "not yet implemented: Rocket has not been implemented."]

\* The calls launch makes on its validator, in order.  The argument is moved
\* into a tuple that is dropped at once and both branches panic: no hook of
\* the Validator trait is ever invoked.
launch_validator_calls(s, padding, starship) == <<>>

\* A call of launch on the scenario whose reference output creep has
\* returned (TestCase::launch compares against the stored reference).
Launch ==
    /\ pc = "done"
    /\ Len(launches) < MaxLaunches
    /\ \E padding \in 0..MaxPadding, starship \in BOOLEAN :
          launches' = Append(launches,
                             [padding |-> padding, starship |-> starship,
                              result |-> launch(scenario, padding, starship),
                              validator_calls |->
                                  launch_validator_calls(scenario, padding, starship)])
    /\ UNCHANGED <<slug_vars, call>>

\* The scenarios handed to launch: traced, no obstacle, persons in a row.
LaunchScenarios ==
    { s \in Scenarios :
         /\ s.trace
         /\ s.obstacles = <<>>
         /\ \A i \in DOMAIN s.population : s.population[i].position = Xy_new(i - 1, 0) }

InitLaunch ==
    /\ \E s \in LaunchScenarios : Slug_new(s)
    /\ ticks_done = 0
    /\ idx = 0
    /\ pc = "creep"
    /\ output = "none"
    /\ launches = <<>>
    /\ call = [fn |-> "none"]

NextLaunch == Slug_tick_person \/ Slug_tick_infect \/ creep_return \/ Launch

SpecLaunch == InitLaunch /\ [][NextLaunch]_vars

----------------------------------------------------------------------------
(* Calls of check on the output of creep and on outputs that differ from   *)
(* it in one place.                                                        *)

\* Outputs that differ from `o` in their trace.
TraceVariants(o) ==
    LET n == Len(o.trace)
        last == o.trace[n].population
        changed == { [last[1] EXCEPT !.position = Xy_add(@, Xy_new(1, 0))],
                     [last[1] EXCEPT !.direction = IF @ = "North" THEN "South" ELSE "North"],
                     [last[1] EXCEPT !.seed = Sha256(@)],
                     [last[1] EXCEPT !.name = "mallory"],
                     [last[1] EXCEPT !.infection_state.in_state_since = @ + 1] }
    IN  { [o EXCEPT !.trace = SubSeq(@, 1, n - 1)],
          [o EXCEPT !.trace = Append(@, @[n])],
          [o EXCEPT !.trace[n].population = SubSeq(@, 1, Len(@) - 1)],
          [o EXCEPT !.trace[1].population = Append(@, @[1])] }
        \cup { [o EXCEPT !.trace[n].population[1] = info] : info \in changed }

\* Outputs that differ from `o` in their statistics.
StatisticsVariants(o) ==
    LET n == Len(o.statistics["all"])
    IN  { [o EXCEPT !.statistics = [key \in DOMAIN @ \ {"left"} |-> @[key]]],
          [o EXCEPT !.statistics =
              [key \in DOMAIN @ \cup {"extra"} |-> IF key = "extra" THEN @["all"] ELSE @[key]]],
          [o EXCEPT !.statistics["all"] = SubSeq(@, 1, n - 1)],
          [o EXCEPT !.statistics["left"] = Append(@, @[1])],
          [o EXCEPT !.statistics["all"][n].recovered = @ + 1],
          [o EXCEPT !.statistics["left"][1].susceptible = @ + 1] }

\* Outputs that differ from `o` in the scenario they echo only.
ScenarioVariants(o) == { [o EXCEPT !.scenario.ticks = @ + 1] }

Variants(o) == {o} \cup TraceVariants(o) \cup StatisticsVariants(o) \cup ScenarioVariants(o)

InitChecker ==
    /\ \E s \in LaunchScenarios : Slug_new(s)
    /\ ticks_done = 0
    /\ idx = 0
    /\ pc = "creep"
    /\ output = "none"
    /\ launches = <<>>
    /\ call = [fn |-> "none"]

\* check(output, expected), one of the two being the output of creep or
\* both being the same output.
Call_check ==
    /\ pc = "done"
    /\ call.fn = "none"
    /\ \E out \in Variants(output), expected \in Variants(output) :
          /\ out = output \/ expected = output \/ out = expected
          /\ \E query_keys \in Orders(DOMAIN out.statistics \cup DOMAIN expected.statistics) :
                 call' = [fn |-> "check", output |-> out, expected |-> expected,
                          problems |-> Checker_check(out, expected, query_keys)]
    /\ UNCHANGED <<slug_vars, launches>>

NextChecker == Slug_tick_person \/ Slug_tick_infect \/ creep_return \/ Call_check

SpecChecker == InitChecker /\ [][NextChecker]_vars

----------------------------------------------------------------------------
(* The test harness (TestCase::run) and the command line (main).  They    *)
(* run on the scenario whose output creep has returned.                    *)

\* Result::unwrap on what launch returned; a panic of launch passes through.
\* The message is the one of the standard library without its backquotes.
Result_unwrap(result) ==
    IF result.kind = "Err"
    THEN [kind |-> "Panic",
          message |-> "called Result::unwrap() on an Err value: " \o result.error]
    ELSE result

\* The closure TestCase::creep or TestCase::launch hands to run.
TestCase_simulate(simulate, s, reference) ==
    IF simulate.name = "creep"
    THEN [kind |-> "Ok", output |-> reference]
    ELSE Result_unwrap(launch(s, simulate.padding, simulate.starship))

\* The message run extracts from a panic payload.
TestCase_messageStrOnly(payload) ==
    IF payload.type = "&str" THEN payload.value ELSE "Panic payload is not a string."

TestCase_message(payload) ==
    IF payload.type = "&str"
    THEN payload.value
    ELSE IF payload.type = "String"
    THEN payload.value
    ELSE "Panic payload is not a string."

InitHarness ==
    /\ \E s \in LaunchScenarios : Slug_new(s)
    /\ ticks_done = 0
    /\ idx = 0
    /\ pc = "creep"
    /\ output = "none"
    /\ launches = <<>>
    /\ call = [fn |-> "none"]

\* TestCase::run up to recv_timeout: the channel is created and the thread
\* of the simulation is spawned.
Run_spawn ==
    /\ pc = "done"
    /\ call.fn = "none"
    /\ \E name \in {"creep", "launch"}, padding \in 0..MaxPadding, starship \in BOOLEAN :
          /\ name = "creep" => (padding = 0 /\ ~starship)
          /\ call' = [fn |-> "TestCase::run",
                      simulate |-> [name |-> name, padding |-> padding, starship |-> starship],
                      thread |-> "running", channel |-> <<>>, receiver |-> "waiting",
                      checker_calls |-> 0, test |-> [kind |-> "running"]]
    /\ UNCHANGED <<slug_vars, launches>>

\* The spawned thread: the simulation runs inside catch_unwind and its
\* result is sent; a send to a dropped receiver fails and is ignored.  The
\* payload of a formatted panic is a String or, when the message folds to
\* a literal, a &str.
Thread_send ==
    /\ call.fn = "TestCase::run"
    /\ call.thread = "running"
    /\ LET result == TestCase_simulate(call.simulate, scenario, output)
       IN  \E type \in {"&str", "String"} :
              LET caught == IF result.kind = "Panic"
                            THEN [kind |-> "Err",
                                  payload |-> [type |-> type, value |-> result.message]]
                            ELSE result
              IN  call' = [call EXCEPT
                              !.thread = "finished",
                              !.channel = IF call.receiver = "dropped"
                                          THEN @ ELSE Append(@, caught)]
    /\ UNCHANGED <<slug_vars, launches>>

\* recv_timeout runs out before a result is in the channel.
Run_timeout ==
    /\ call.fn = "TestCase::run"
    /\ call.receiver = "waiting"
    /\ call.channel = <<>>
    /\ call' = [call EXCEPT
                    !.receiver = "dropped",
                    !.test = [kind |-> "Panic", message |-> "Timeout after {} seconds!"]]
    /\ UNCHANGED <<slug_vars, launches>>

\* recv_timeout returns the result and run matches on it.
Run_recv ==
    /\ call.fn = "TestCase::run"
    /\ call.receiver = "waiting"
    /\ call.channel # <<>>
    /\ LET result == Head(call.channel)
       IN  IF result.kind = "Ok"
           THEN \E query_keys \in Orders(DOMAIN result.output.statistics
                                          \cup DOMAIN output.statistics) :
                   LET problems == Checker_check(result.output, output, query_keys)
                   IN  call' = [call EXCEPT
                                   !.receiver = "received",
                                   !.channel = Tail(@),
                                   !.checker_calls = @ + 1,
                                   !.test = IF problems # <<>>
                                            THEN [kind |-> "Panic",
                                                  message |-> "Output does not match expected output!"]
                                            ELSE [kind |-> "Ok", message |-> ""]]
           ELSE call' = [call EXCEPT
                            !.receiver = "received",
                            !.channel = Tail(@),
                            !.test = [kind |-> "Panic",
                                      message |-> "Simulation panicked with: "
                                                  \o TestCase_message(result.payload)]]
    /\ UNCHANGED <<slug_vars, launches>>

\* main: the simulation is chosen and run, `?` returns its error, the output
\* is saved.  A panic of the simulation unwinds through main.
main ==
    /\ pc = "done"
    /\ call.fn = "none"
    /\ \E rocket \in BOOLEAN, starship \in BOOLEAN, padding \in 0..MaxPadding,
          written \in BOOLEAN :
          LET simulated == IF rocket THEN launch(scenario, padding, starship)
                           ELSE [kind |-> "Ok", output |-> output]
          IN  /\ ~rocket => (~starship /\ padding = 0)
              /\ call' = [fn |-> "main", rocket |-> rocket, starship |-> starship,
                          padding |-> padding, simulated |-> simulated,
                          save_calls |-> IF simulated.kind = "Ok" THEN 1 ELSE 0,
                          exit |-> IF simulated.kind = "Panic"
                                   THEN [kind |-> "Panic", message |-> simulated.message]
                                   ELSE IF simulated.kind = "Err"
                                   THEN [kind |-> "Err", message |-> simulated.error]
                                   ELSE IF written
                                   THEN [kind |-> "Ok", message |-> ""]
                                   ELSE [kind |-> "Err", message |-> "OutputError"]]
    /\ UNCHANGED <<slug_vars, launches>>

NextHarness ==
    \/ Slug_tick_person \/ Slug_tick_infect \/ creep_return
    \/ Run_spawn \/ Thread_send \/ Run_timeout \/ Run_recv \/ main

SpecHarness == InitHarness /\ [][NextHarness]_vars

----------------------------------------------------------------------------
(* Properties of launch.                                                   *)

RequiredPadding == scenario.parameters.infection_radius + 1

\* C1 (parity): every call of launch in rocket mode with a sufficient
\* padding returns an Output whose trace and statistics equal those of the
\* Output of creep on the same scenario.
C1_Parity ==
    \A k \in DOMAIN launches :
        (~launches[k].starship /\ launches[k].padding >= RequiredPadding)
        => /\ launches[k].result.kind = "Ok"
           /\ launches[k].result.output.trace = output.trace
           /\ launches[k].result.output.statistics = output.statistics

\* C2 (determinism across padding): any two calls of launch in rocket mode
\* on one scenario, with paddings that are both sufficient, succeed and
\* return the same trace and statistics.
C2_PaddingDeterminism ==
    \A k1, k2 \in DOMAIN launches :
        (/\ ~launches[k1].starship /\ ~launches[k2].starship
         /\ launches[k1].padding >= RequiredPadding
         /\ launches[k2].padding >= RequiredPadding)
        => /\ launches[k1].result.kind = "Ok"
           /\ launches[k2].result.kind = "Ok"
           /\ launches[k1].result.output.trace = launches[k2].result.output.trace
           /\ launches[k1].result.output.statistics
                 = launches[k2].result.output.statistics

\* C3 (padding gate): a call of launch in rocket mode returns
\* Err(InsufficientPadding(padding)) exactly when padding < infection_radius + 1.
C3_PaddingGate ==
    \A k \in DOMAIN launches :
        ~launches[k].starship
        => ((/\ launches[k].result.kind = "Err"
             /\ launches[k].result.error = [InsufficientPadding |-> launches[k].padding])
            <=> launches[k].padding < RequiredPadding)

\* C5 (entrypoint): every call of launch, in either mode and with any
\* padding, returns Ok(Output) or Err(InsufficientPadding); it never panics.
C5_LaunchReturns ==
    \A k \in DOMAIN launches : launches[k].result.kind \in {"Ok", "Err"}

----------------------------------------------------------------------------
(* Properties of the serial engine and of Person::tick.                    *)

\* The cell a person described by `info` heads for in its next tick: its
\* position plus the clamped sum of its direction and of the acceleration
\* drawn from its advanced chain state.
VelocityOf(info, parameters) ==
    LET acceleration ==
            Direction_vector(
                Direction_from_index(Sha256(info.seed)[3] \div parameters.acceleration_divisor))
        sum == Xy_add(Direction_vector(info.direction), acceleration)
    IN  [x |-> IF sum.x > 1 THEN 1 ELSE IF sum.x < -1 THEN -1 ELSE sum.x,
         y |-> IF sum.y > 1 THEN 1 ELSE IF sum.y < -1 THEN -1 ELSE sum.y]

CandidateOf(info, parameters) == Xy_add(info.position, VelocityOf(info, parameters))

OutsideGrid(cell) ==
    \/ cell.x < 0 \/ cell.x >= scenario.grid_size.x
    \/ cell.y < 0 \/ cell.y >= scenario.grid_size.y

InsideObstacle(cell) ==
    \E k \in DOMAIN scenario.obstacles :
        /\ scenario.obstacles[k].top_left.x <= cell.x
        /\ cell.x < scenario.obstacles[k].top_left.x + scenario.obstacles[k].size.x
        /\ scenario.obstacles[k].top_left.y <= cell.y
        /\ cell.y < scenario.obstacles[k].top_left.y + scenario.obstacles[k].size.y

\* C7: starting from pairwise distinct positions, any two different
\* persons have different positions after every Person::tick call and
\* after every tick.
C7_DistinctPositions ==
    \A i, j \in DOMAIN population :
        i # j => population[i].position # population[j].position

\* Two persons have left their initial cells and the run has ended.
C7_Witness ==
    /\ pc = "done"
    /\ \E i, j \in DOMAIN population :
          /\ i # j
          /\ population[i].position # scenario.population[i].position
          /\ population[j].position # scenario.population[j].position

\* C8: starting inside the grid and off every obstacle, every person is
\* inside the grid and on no obstacle at every point of the run.
C8_InGridOffObstacles ==
    \A i \in DOMAIN population :
        /\ ~OutsideGrid(population[i].position)
        /\ ~InsideObstacle(population[i].position)

\* In some recorded tick one person headed out of the grid and another
\* person headed into an obstacle.
C8_Witness ==
    \E t \in DOMAIN trace, i, j \in DOMAIN population :
        /\ t < Len(trace)
        /\ OutsideGrid(CandidateOf(trace[t].population[i], scenario.parameters))
        /\ InsideObstacle(CandidateOf(trace[t].population[j], scenario.parameters))

\* C9: in one tick no person moves into a cell a different person occupied
\* at the start of that tick; two persons that head into each other's
\* cells both keep their positions and end with direction None.
C9_NoSwap ==
    \A t \in DOMAIN trace :
        t < Len(trace) =>
            \A i, j \in DOMAIN population :
                i # j =>
                    LET before == trace[t].population
                        after == trace[t + 1].population
                    IN  /\ after[i].position # before[j].position
                        /\ (/\ CandidateOf(before[i], scenario.parameters) = before[j].position
                            /\ CandidateOf(before[j], scenario.parameters) = before[i].position)
                           => /\ after[i].position = before[i].position
                              /\ after[j].position = before[j].position
                              /\ after[i].direction = "None"
                              /\ after[j].direction = "None"

\* In some recorded tick two persons headed into each other's cells.
C9_Witness ==
    \E t \in DOMAIN trace, i, j \in DOMAIN population :
        /\ t < Len(trace)
        /\ i # j
        /\ CandidateOf(trace[t].population[i], scenario.parameters)
              = trace[t].population[j].position
        /\ CandidateOf(trace[t].population[j], scenario.parameters)
              = trace[t].population[i].position

\* C10: a call of Person::tick advances the chain state, increments the
\* dwell and applies the time-driven transition; it bumps exactly when the
\* candidate cell is outside the grid, inside an obstacle or an entry of
\* the positions or ghosts it is given; a bump keeps the position and sets
\* direction None, otherwise the person takes the candidate cell and the
\* direction of its velocity.  Nothing else of the person changes.
C10_TickFrame ==
    [][idx' = idx + 1 =>
        LET old == population[idx + 1]
            new == population'[idx + 1]
            aged == old.infection_state.in_state_since + 1
            velocity == VelocityOf(Person_info(old), scenario.parameters)
            candidate == Xy_add(old.position, velocity)
            bumps == \/ OutsideGrid(candidate)
                     \/ InsideObstacle(candidate)
                     \/ \E k \in DOMAIN positions : positions[k] = candidate
                     \/ \E k \in DOMAIN ghosts' : ghosts'[k] = candidate
        IN  /\ new.rng = Sha256(old.rng)
            /\ new.infection_state =
                  IF old.infection_state.state = "Infected"
                     /\ aged >= scenario.parameters.incubation_time
                  THEN [state |-> "Infectious", in_state_since |-> 0]
                  ELSE IF old.infection_state.state = "Infectious"
                          /\ aged >= scenario.parameters.recovery_time
                       THEN [state |-> "Recovered", in_state_since |-> 0]
                       ELSE [state |-> old.infection_state.state, in_state_since |-> aged]
            /\ bumps => new.position = old.position /\ new.direction = "None"
            /\ ~bumps => /\ new.position = candidate
                         /\ new.direction = Direction_from_vector(velocity)
            /\ new.id = old.id /\ new.name = old.name /\ new.parameters = old.parameters
            /\ \A k \in DOMAIN population : k # idx + 1 => population'[k] = population[k]
    ]_vars

\* Within one tick the first person has bumped while heading for a cell
\* other than its own, and the second person has moved.
C10_Witness ==
    /\ idx = 2
    /\ trace # <<>>
    /\ LET before == trace[Len(trace)].population
       IN  /\ population[1].position = before[1].position
           /\ CandidateOf(before[1], scenario.parameters) # before[1].position
           /\ population[1].direction = "None"
           /\ population[2].position # before[2].position

----------------------------------------------------------------------------
(* Properties of the recorded output.                                      *)

\* The persons of a snapshot (a trace entry's population, or the current
\* population) that stand inside the half-open rectangle `area`.
PersonsInArea(snapshot, area) ==
    {i \in DOMAIN snapshot :
        /\ area.top_left.x <= snapshot[i].position.x
        /\ snapshot[i].position.x < area.top_left.x + area.size.x
        /\ area.top_left.y <= snapshot[i].position.y
        /\ snapshot[i].position.y < area.top_left.y + area.size.y}

PersonsInState(snapshot, area, state) ==
    {i \in PersonsInArea(snapshot, area) : snapshot[i].infection_state.state = state}

RowCounts(row, snapshot, area) ==
    /\ row.susceptible + row.infected + row.infectious + row.recovered
          = Cardinality(PersonsInArea(snapshot, area))
    /\ row.susceptible = Cardinality(PersonsInState(snapshot, area, "Susceptible"))
    /\ row.infected = Cardinality(PersonsInState(snapshot, area, "Infected"))
    /\ row.infectious = Cardinality(PersonsInState(snapshot, area, "Infectious"))
    /\ row.recovered = Cardinality(PersonsInState(snapshot, area, "Recovered"))

\* C11: for every query and every recorded tick, the four counts of the
\* statistics row add up to the number of persons standing in the query's
\* area at that tick, and each count is the number of those persons in
\* that state.  Row t is compared with trace entry t when the run is
\* traced, and the newest row with the population at the end of the tick.
C11_StatisticsCounts ==
    \A key \in DOMAIN statistics :
        \A t \in DOMAIN statistics[key] :
            /\ scenario.trace =>
                  RowCounts(statistics[key][t], trace[t].population,
                            scenario.queries[key].area)
            /\ (idx = 0 /\ t = Len(statistics[key])) =>
                  RowCounts(statistics[key][t], population, scenario.queries[key].area)

\* After a tick, one person stands inside the area of a query and another
\* outside of it, and the persons inside are not all in one state.
C11_Witness ==
    /\ idx = 0
    /\ ticks_done >= 1
    /\ \E key \in DOMAIN statistics :
          LET row == statistics[key][Len(statistics[key])]
              inside == PersonsInArea(population, scenario.queries[key].area)
          IN  /\ inside # {}
              /\ inside # DOMAIN population
              /\ row.susceptible + row.infected + row.infectious + row.recovered
                    = Cardinality(inside)
    /\ \E key \in DOMAIN statistics :
          LET row == statistics[key][Len(statistics[key])]
          IN  row.infected >= 1 /\ row.infectious >= 1

\* `longer` is `shorter` with exactly one element appended.
ExtendsByOne(longer, shorter) ==
    /\ Len(longer) = Len(shorter) + 1
    /\ \A k \in DOMAIN shorter : longer[k] = shorter[k]

\* C12: the statistics map has exactly the scenario's query names as keys;
\* after t ticks every series has t + 1 rows and the trace has t + 1
\* entries when scenario.trace is set and none otherwise, so the output
\* returned after `ticks` ticks has ticks + 1 of each; a step either
\* leaves series and trace alone or, completing a tick, appends one row
\* to every series (and one entry to a recorded trace) and changes none
\* of the rows and entries recorded before.
C12_OutputShape ==
    /\ [](/\ DOMAIN statistics = DOMAIN scenario.queries
          /\ \A key \in DOMAIN statistics : Len(statistics[key]) = ticks_done + 1
          /\ Len(trace) = (IF scenario.trace THEN ticks_done + 1 ELSE 0)
          /\ pc = "done" =>
                /\ DOMAIN output.statistics = DOMAIN scenario.queries
                /\ \A key \in DOMAIN output.statistics :
                      Len(output.statistics[key]) = scenario.ticks + 1
                /\ Len(output.trace) = (IF scenario.trace THEN scenario.ticks + 1 ELSE 0))
    /\ [][/\ DOMAIN statistics' = DOMAIN statistics
          /\ IF ticks_done' = ticks_done
             THEN statistics' = statistics /\ trace' = trace
             ELSE /\ ticks_done' = ticks_done + 1
                  /\ \A key \in DOMAIN statistics :
                        ExtendsByOne(statistics'[key], statistics[key])
                  /\ IF scenario.trace THEN ExtendsByOne(trace', trace)
                                       ELSE trace' = trace]_vars

\* A traced run of at least one tick has returned its output.
C12_Witness ==
    /\ pc = "done"
    /\ scenario.trace
    /\ scenario.ticks >= 1
    /\ Len(output.trace) = scenario.ticks + 1
    /\ \E key \in DOMAIN output.statistics : Len(output.statistics[key]) = scenario.ticks + 1

----------------------------------------------------------------------------
(* Properties of the infection states.                                     *)

\* C13: over every recorded tick and for every person, the dwell counter
\* at the end of the tick is 0 when the person's state changed during the
\* tick (by the time-driven transition or by infect) and one more than at
\* the end of the previous tick otherwise.
C13_DwellCounter ==
    \A t \in DOMAIN trace :
        t < Len(trace) =>
            \A i \in DOMAIN trace[t].population :
                LET before == trace[t].population[i].infection_state
                    after == trace[t + 1].population[i].infection_state
                IN  IF after.state # before.state
                    THEN after.in_state_since = 0
                    ELSE after.in_state_since = before.in_state_since + 1

\* The trace records a person infected by a neighbour, a time-driven
\* transition, and a person whose state did not change over a tick it
\* began with a positive dwell.
C13_Witness ==
    /\ \E t \in DOMAIN trace, i \in DOMAIN population :
          /\ t < Len(trace)
          /\ trace[t].population[i].infection_state.state = "Susceptible"
          /\ trace[t + 1].population[i].infection_state.state = "Infected"
    /\ \E t \in DOMAIN trace, i \in DOMAIN population :
          /\ t < Len(trace)
          /\ trace[t].population[i].infection_state.state = "Infected"
          /\ trace[t + 1].population[i].infection_state.state = "Infectious"
    /\ \E t \in DOMAIN trace, i \in DOMAIN population :
          /\ t < Len(trace)
          /\ trace[t].population[i].infection_state.in_state_since >= 1
          /\ trace[t + 1].population[i].infection_state.state
                = trace[t].population[i].infection_state.state

\* C14: with incubation_time >= 1 and recovery_time >= 1, a person that is
\* Infected with dwell 0 at the end of tick t is Infected with dwell k at
\* tick t + k for k < incubation_time, Infectious with dwell 0 at tick
\* t + incubation_time, Infectious until it is Recovered with dwell 0 at
\* tick t + incubation_time + recovery_time, and Recovered from then on
\* (incubation 2, recovery 3, Infected at tick 0: Infected(1) at tick 1,
\* Infectious(0) at tick 2, Recovered at tick 5); over one tick a person's
\* state stays or advances by one state, never by two.
C14_IncubationTiming ==
    LET incubation == scenario.parameters.incubation_time
        recovery == scenario.parameters.recovery_time
        Course(k) ==
            IF k < incubation THEN [state |-> "Infected", in_state_since |-> k]
            ELSE IF k < incubation + recovery
                 THEN [state |-> "Infectious", in_state_since |-> k - incubation]
                 ELSE [state |-> "Recovered", in_state_since |-> k - incubation - recovery]
        Rank(state) == CASE state = "Susceptible" -> 0 [] state = "Infected" -> 1
                         [] state = "Infectious" -> 2 [] state = "Recovered" -> 3
    IN  /\ (incubation >= 1 /\ recovery >= 1) =>
              \A t \in DOMAIN trace : \A i \in DOMAIN trace[t].population :
                  trace[t].population[i].infection_state
                        = [state |-> "Infected", in_state_since |-> 0]
                  => \A k \in 0..(Len(trace) - t) :
                        trace[t + k].population[i].infection_state = Course(k)
        /\ \A t \in DOMAIN trace : \A i \in DOMAIN trace[t].population :
              t < Len(trace) =>
                  Rank(trace[t + 1].population[i].infection_state.state)
                    - Rank(trace[t].population[i].infection_state.state) \in {0, 1}

\* With incubation 2 and recovery 3 a person Infected with dwell 0 at
\* tick 0 has been followed to its recovery at tick 5, and another person
\* of the run was infected by a neighbour during the run.
C14_Witness ==
    /\ scenario.parameters.incubation_time = 2
    /\ scenario.parameters.recovery_time = 3
    /\ Len(trace) >= 6
    /\ \E i \in DOMAIN population :
          /\ trace[1].population[i].infection_state
                = [state |-> "Infected", in_state_since |-> 0]
          /\ trace[2].population[i].infection_state
                = [state |-> "Infected", in_state_since |-> 1]
          /\ trace[3].population[i].infection_state
                = [state |-> "Infectious", in_state_since |-> 0]
          /\ trace[5].population[i].infection_state.state = "Infectious"
          /\ trace[6].population[i].infection_state
                = [state |-> "Recovered", in_state_since |-> 0]
    /\ \E t \in DOMAIN trace, j \in DOMAIN population :
          /\ t < Len(trace)
          /\ trace[t].population[j].infection_state.state = "Susceptible"
          /\ trace[t + 1].population[j].infection_state
                = [state |-> "Infected", in_state_since |-> 0]

\* Manhattan distance of the positions of persons i and j of a snapshot.
ManhattanDistance(snapshot, i, j) ==
    LET dx == snapshot[i].position.x - snapshot[j].position.x
        dy == snapshot[i].position.y - snapshot[j].position.y
    IN  (IF dx < 0 THEN -dx ELSE dx) + (IF dy < 0 THEN -dy ELSE dy)

\* In the snapshot taken at the end of a tick, person i is Infectious and
\* coughs (byte 0 of its chain state is below the cough threshold) and
\* person j breathes (byte 1 of its chain state is below the breath
\* threshold).
Transmits(snapshot, i, j) ==
    /\ snapshot[i].infection_state.state = "Infectious"
    /\ snapshot[i].seed[1] < scenario.parameters.cough_threshold
    /\ snapshot[j].seed[2] < scenario.parameters.breath_threshold

\* C15: a person j that begins a tick Susceptible ends it Infected with
\* dwell 0 exactly when there is another person i whose post-move
\* Manhattan distance to j is at most infection_radius, with i Infectious
\* and coughing and j breathing; otherwise j ends the tick Susceptible.
\* A distance of exactly the radius counts, radius + 1 does not.
C15_InfectionRule ==
    \A t \in DOMAIN trace :
        t < Len(trace) =>
            LET before == trace[t].population
                after == trace[t + 1].population
            IN  \A j \in DOMAIN before :
                    before[j].infection_state.state = "Susceptible" =>
                        LET exposed ==
                                \E i \in DOMAIN after :
                                    /\ i # j
                                    /\ ManhattanDistance(after, i, j)
                                          <= scenario.parameters.infection_radius
                                    /\ Transmits(after, i, j)
                        IN  /\ after[j].infection_state.state
                                  = (IF exposed THEN "Infected" ELSE "Susceptible")
                            /\ exposed => after[j].infection_state.in_state_since = 0

\* One recorded tick infected a person at a distance of exactly the
\* radius, and one left a breathing susceptible person uninfected at
\* radius + 1 from an infectious, coughing person.
C15_Witness ==
    /\ \E t \in DOMAIN trace, i, j \in DOMAIN population :
          /\ t < Len(trace)
          /\ i # j
          /\ trace[t].population[j].infection_state.state = "Susceptible"
          /\ trace[t + 1].population[j].infection_state.state = "Infected"
          /\ ManhattanDistance(trace[t + 1].population, i, j)
                = scenario.parameters.infection_radius
          /\ Transmits(trace[t + 1].population, i, j)
    /\ \E t \in DOMAIN trace, i, j \in DOMAIN population :
          /\ t < Len(trace)
          /\ i # j
          /\ trace[t].population[j].infection_state.state = "Susceptible"
          /\ trace[t + 1].population[j].infection_state.state = "Susceptible"
          /\ ManhattanDistance(trace[t + 1].population, i, j)
                = scenario.parameters.infection_radius + 1
          /\ Transmits(trace[t + 1].population, i, j)

\* C16: infect changes a person only when it is Susceptible, and then to
\* Infected with dwell 0; on an Infected, Infectious or Recovered person it
\* changes nothing, the dwell included; infecting twice is infecting
\* once.  A person infected during a tick is Infected, not Infectious, at
\* the end of that tick and infects nobody in it: every person infected
\* in a tick has, within the radius, a transmitting person that did not
\* begin the tick Susceptible.
C16_InfectIdempotent ==
    /\ \A i \in DOMAIN population :
          LET person == population[i]
              once == Person_infect(person)
          IN  /\ once = (IF person.infection_state.state = "Susceptible"
                         THEN [person EXCEPT !.infection_state =
                                  [state |-> "Infected", in_state_since |-> 0]]
                         ELSE person)
              /\ Person_infect(once) = once
    /\ \A t \in DOMAIN trace :
          t < Len(trace) =>
              LET before == trace[t].population
                  after == trace[t + 1].population
              IN  \A j \in DOMAIN before :
                      (/\ before[j].infection_state.state = "Susceptible"
                       /\ after[j].infection_state.state # "Susceptible")
                      => /\ after[j].infection_state
                               = [state |-> "Infected", in_state_since |-> 0]
                         /\ \E i \in DOMAIN before :
                               /\ i # j
                               /\ before[i].infection_state.state # "Susceptible"
                               /\ ManhattanDistance(after, i, j)
                                     <= scenario.parameters.infection_radius
                               /\ Transmits(after, i, j)

\* One recorded tick called infect on a person that was not Susceptible
\* and had a positive dwell, one infected a susceptible person, and the
\* population holds a person that is not Susceptible.
C16_Witness ==
    /\ \E t \in DOMAIN trace, i, j \in DOMAIN population :
          /\ t < Len(trace)
          /\ i # j
          /\ trace[t].population[j].infection_state.state # "Susceptible"
          /\ trace[t + 1].population[j].infection_state.in_state_since >= 1
          /\ ManhattanDistance(trace[t + 1].population, i, j)
                <= scenario.parameters.infection_radius
          /\ Transmits(trace[t + 1].population, i, j)
    /\ \E t \in DOMAIN trace, j \in DOMAIN population :
          /\ t < Len(trace)
          /\ trace[t].population[j].infection_state.state = "Susceptible"
          /\ trace[t + 1].population[j].infection_state.state = "Infected"
    /\ \E i \in DOMAIN population :
          /\ population[i].infection_state.state # "Susceptible"
          /\ population[i].infection_state.in_state_since >= 1

\* The unordered pairs the pair loop visits, and every order to visit them.
ResolutionPairs ==
    {pair \in (1..ResolutionPersons) \X (1..ResolutionPersons) : pair[1] < pair[2]}

PairOrders ==
    {order \in [1..Cardinality(ResolutionPairs) -> ResolutionPairs] :
        \A a, b \in DOMAIN order : a # b => order[a] # order[b]}

\* The body of the pair loop applied to the pairs of `order` from the k-th on.
RECURSIVE InfectInOrder(_, _, _, _)
InfectInOrder(s, pop, order, k) ==
    IF k > Len(order) THEN pop
    ELSE InfectInOrder(s, Slug_infect_pair(s, pop, order[k][1], order[k][2]), order, k + 1)

\* C17: the result of the infection resolution of a tick does not depend
\* on the order in which the pairs are evaluated: taking the same
\* unordered pairs in any permutation, and either person of a pair
\* first, gives every person the state and dwell that the serial order
\* i < j gave it.
C17_OrderIndependent ==
    [][ticks_done' = ticks_done + 1 =>
        /\ \A order \in PairOrders :
              InfectInOrder(scenario, population, order, 1) = population'
        /\ \A pair \in ResolutionPairs :
              Slug_infect_pair(scenario, population, pair[2], pair[1])
                = Slug_infect_pair(scenario, population, pair[1], pair[2])
    ]_vars

\* The tick just completed infected a person that had two transmitting
\* persons within the radius, so that two pairs called infect on it.
C17_Witness ==
    /\ idx = 0
    /\ ticks_done >= 1
    /\ trace # <<>>
    /\ Len(population) >= 3
    /\ \E j, i1, i2 \in DOMAIN population :
          /\ i1 # j /\ i2 # j /\ i1 # i2
          /\ trace[Len(trace) - 1].population[j].infection_state.state = "Susceptible"
          /\ population[j].infection_state.state = "Infected"
          /\ \A i \in {i1, i2} :
                /\ ManhattanDistance(population, i, j) <= scenario.parameters.infection_radius
                /\ population[i].infection_state.state = "Infectious"
                /\ population[i].rng[1] < scenario.parameters.cough_threshold
                /\ population[j].rng[2] < scenario.parameters.breath_threshold

----------------------------------------------------------------------------
(* Properties of the chain of random numbers and of the trace.             *)

\* The hash applied n times to a seed.
RECURSIVE HashTimes(_, _)
HashTimes(seed, n) == IF n = 0 THEN seed ELSE Sha256(HashTimes(seed, n - 1))

\* C18: the chain state of a person is replaced by its hash exactly once
\* per tick, when the person's turn in the tick comes, whether or not the
\* person bumps or changes state: the seed recorded for a person at tick
\* t is the hash applied t times to the person's scenario seed, and so
\* depends on nothing but that seed.
C18_RngChain ==
    /\ \A t \in DOMAIN trace : \A i \in DOMAIN trace[t].population :
          trace[t].population[i].seed = HashTimes(scenario.population[i].seed, t - 1)
    /\ \A i \in DOMAIN population :
          population[i].rng
            = HashTimes(scenario.population[i].seed,
                        IF i <= idx THEN ticks_done + 1 ELSE ticks_done)

\* Two ticks are recorded; in the first one person bumped and one person
\* changed state, and both have the twice-hashed seed at tick 2.
C18_Witness ==
    /\ Len(trace) >= 3
    /\ \E i, j \in DOMAIN population :
          /\ trace[1].population[i].direction # "None"
          /\ trace[2].population[i].direction = "None"
          /\ trace[2].population[i].position = trace[1].population[i].position
          /\ trace[2].population[j].infection_state.state
                # trace[1].population[j].infection_state.state
          /\ trace[3].population[i].seed = Sha256(Sha256(scenario.population[i].seed))
          /\ trace[3].population[j].seed = Sha256(Sha256(scenario.population[j].seed))
          /\ trace[3].population[i].seed # scenario.population[i].seed

\* C19: every trace entry has exactly as many persons as the scenario's
\* population, and the person at index i of every entry is the person
\* created from scenario.population[i], with the same name; the engine's
\* own population keeps that order and its ids.
C19_StableOrder ==
    /\ \A t \in DOMAIN trace :
          /\ Len(trace[t].population) = Len(scenario.population)
          /\ \A i \in DOMAIN scenario.population :
                trace[t].population[i].name = scenario.population[i].name
    /\ Len(population) = Len(scenario.population)
    /\ \A i \in DOMAIN scenario.population :
          /\ population[i].name = scenario.population[i].name
          /\ population[i].id = i - 1

\* A traced run has returned its output after at least two ticks in
\* which a person moved, and its persons have pairwise distinct names.
C19_Witness ==
    /\ pc = "done"
    /\ Len(output.trace) >= 3
    /\ \A i, j \in DOMAIN scenario.population :
          i # j => scenario.population[i].name # scenario.population[j].name
    /\ \E i \in DOMAIN scenario.population :
          output.trace[Len(output.trace)].population[i].position
            # scenario.population[i].position

\* C20: in a traced run the first trace entry equals the scenario's
\* population field for field (name, position, seed, infection state with
\* its dwell, direction), and the first statistics row of every query
\* counts the scenario's population as it is before any tick.
C20_TickZeroSnapshot ==
    /\ scenario.trace =>
          /\ Len(trace) >= 1
          /\ DOMAIN trace[1].population = DOMAIN scenario.population
          /\ \A i \in DOMAIN scenario.population :
                LET recorded == trace[1].population[i]
                    given == scenario.population[i]
                IN  /\ recorded.name = given.name
                    /\ recorded.position = given.position
                    /\ recorded.seed = given.seed
                    /\ recorded.infection_state.state = given.infection_state.state
                    /\ recorded.infection_state.in_state_since
                          = given.infection_state.in_state_since
                    /\ recorded.direction = given.direction
                    /\ DOMAIN recorded = DOMAIN given
    /\ \A key \in DOMAIN statistics :
          /\ Len(statistics[key]) >= 1
          /\ RowCounts(statistics[key][1], scenario.population, scenario.queries[key].area)

\* A traced run whose scenario has a person with a positive dwell and a
\* direction has advanced by a tick that changed that person's direction,
\* seed and dwell.
C20_Witness ==
    /\ scenario.trace
    /\ ticks_done >= 1
    /\ \E i \in DOMAIN scenario.population :
          /\ scenario.population[i].infection_state.in_state_since >= 1
          /\ scenario.population[i].direction # "None"
          /\ trace[2].population[i].direction # scenario.population[i].direction
          /\ trace[2].population[i].seed # scenario.population[i].seed
          /\ trace[2].population[i].infection_state # scenario.population[i].infection_state

----------------------------------------------------------------------------
(* Properties of the value model.                                          *)

\* C21: from_index maps 0..7 to North (0,-1), East (1,0), South (0,1),
\* West (-1,0), NorthEast (1,-1), NorthWest (-1,-1), SouthEast (1,1),
\* SouthWest (-1,1) and every index from 8 on to None (0,0), y growing
\* downward; from_vector(vector(d)) = d for each of the 9 directions, and
\* vector(from_vector(v)) = v for every v with components in {-1, 0, 1}.
C21_DirectionEncoding ==
    LET Encoding == << <<"North", 0, -1>>, <<"East", 1, 0>>, <<"South", 0, 1>>,
                       <<"West", -1, 0>>, <<"NorthEast", 1, -1>>, <<"NorthWest", -1, -1>>,
                       <<"SouthEast", 1, 1>>, <<"SouthWest", -1, 1>> >>
    IN  /\ call.fn = "Direction::from_index" =>
              IF call.index < 8
              THEN /\ call.direction = Encoding[call.index + 1][1]
                   /\ call.vector.x = Encoding[call.index + 1][2]
                   /\ call.vector.y = Encoding[call.index + 1][3]
              ELSE /\ call.direction = "None"
                   /\ call.vector.x = 0 /\ call.vector.y = 0
        /\ call.fn = "Direction::vector" => call.back = call.direction
        /\ call.fn = "Direction::from_vector" => call.back = call.vector

\* from_index has been called with an index above 8.
C21_Witness ==
    /\ call.fn = "Direction::from_index"
    /\ call.index > 8
    /\ call.direction = "None"

\* The cell lies in the half-open rectangle spanned by the top-left corner
\* and the size of r.
InHalfOpen(r, cell) ==
    /\ r.top_left.x <= cell.x /\ cell.x < r.top_left.x + r.size.x
    /\ r.top_left.y <= cell.y /\ cell.y < r.top_left.y + r.size.y

PositiveSize(r) == r.size.x >= 1 /\ r.size.y >= 1

\* C22: contains(c) holds exactly when top_left.x <= c.x < bottom_right.x
\* and top_left.y <= c.y < bottom_right.y; for two rectangles of positive
\* width and height overlaps(a, b) holds exactly when some cell is
\* contained in both, so rectangles that only touch along an edge do not
\* overlap; overlaps(a, b) = overlaps(b, a).
C22_ContainsOverlaps ==
    /\ call.fn = "Rectangle::contains" =>
          /\ call.self.bottom_right = [x |-> call.self.top_left.x + call.self.size.x,
                                       y |-> call.self.top_left.y + call.self.size.y]
          /\ call.result <=> InHalfOpen(call.self, call.cell)
    /\ call.fn = "Rectangle::overlaps" =>
          /\ call.flipped = call.result
          /\ (PositiveSize(call.self) /\ PositiveSize(call.other)) =>
                (call.result <=>
                    \E cell \in ProbeCells :
                        InHalfOpen(call.self, cell) /\ InHalfOpen(call.other, cell))

\* overlaps has been called on two rectangles of positive size that touch
\* along a vertical edge, and has returned false.
C22_Witness ==
    /\ call.fn = "Rectangle::overlaps"
    /\ PositiveSize(call.self) /\ PositiveSize(call.other)
    /\ call.self.top_left.x + call.self.size.x = call.other.top_left.x
    /\ call.self.top_left.y = call.other.top_left.y
    /\ ~call.result

\* C23: iterating the cells of a rectangle of non-negative size yields
\* exactly the cells the rectangle contains, each once, in row-major order
\* (x fastest, then y); a rectangle of zero width or zero height yields no
\* cell.
C23_CellIteration ==
    call.fn = "Rectangle::iter_cells" =>
        LET width == call.self.size.x
            height == call.self.size.y
        IN  /\ Len(call.result) = width * height
            /\ \A k \in DOMAIN call.result :
                  /\ call.result[k].x = call.self.top_left.x + ((k - 1) % width)
                  /\ call.result[k].y = call.self.top_left.y + ((k - 1) \div width)
                  /\ InHalfOpen(call.self, call.result[k])

\* Neither rectangle lies entirely left of, right of, above or below the
\* other, in terms of corners and sizes.
Overlapping(a, b) ==
    /\ a.top_left.x < b.top_left.x + b.size.x
    /\ b.top_left.x < a.top_left.x + a.size.x
    /\ a.top_left.y < b.top_left.y + b.size.y
    /\ b.top_left.y < a.top_left.y + a.size.y

\* C24: intersect(a, b) fails with the assertion's panic when a and b do
\* not overlap; when they overlap it returns a rectangle whose
\* bottom_right is top_left + size and which contains a cell exactly when
\* a and b both contain it; intersect(a, b) = intersect(b, a).
C24_Intersect ==
    call.fn = "Rectangle::intersect" =>
        /\ call.flipped = call.result
        /\ IF Overlapping(call.self, call.other)
           THEN /\ DOMAIN call.result = {"top_left", "size", "bottom_right"}
                /\ call.result.bottom_right
                      = [x |-> call.result.top_left.x + call.result.size.x,
                         y |-> call.result.top_left.y + call.result.size.y]
                /\ \A cell \in ProbeCells :
                      InHalfOpen(call.result, cell)
                        <=> (InHalfOpen(call.self, cell) /\ InHalfOpen(call.other, cell))
           ELSE call.result = [kind |-> "Panic", message |-> "Rectangles must overlap!"]

\* intersect has been called on two overlapping rectangles neither of
\* which lies inside the other, and has returned a rectangle with cells.
C24_Witness ==
    /\ call.fn = "Rectangle::intersect"
    /\ Overlapping(call.self, call.other)
    /\ DOMAIN call.result = {"top_left", "size", "bottom_right"}
    /\ call.result # call.self
    /\ call.result # call.other
    /\ call.result.size.x >= 1 /\ call.result.size.y >= 1

----------------------------------------------------------------------------
(* Properties of may_propagate_from.                                       *)

\* The cells of the scenario's grid that are not on an obstacle.
FreeCells ==
    { cell \in { Xy_new(x, y) : x \in 0..(scenario.grid_size.x - 1),
                                y \in 0..(scenario.grid_size.y - 1) } :
        ~\E k \in DOMAIN scenario.obstacles : InHalfOpen(scenario.obstacles[k], cell) }

\* Step relations between cells at offset (dx, dy), for radius r:
\* "ball or neighbour": Manhattan distance at most r, or one of the 8
\* neighbours (or the cell itself); "distance clause": the distance test
\* of the region growth alone, on the offsets it enumerates.
StepAllowed(relation, r, dx, dy) ==
    LET adx == IF dx < 0 THEN -dx ELSE dx
        ady == IF dy < 0 THEN -dy ELSE dy
        sum == IF dx + dy < 0 THEN -(dx + dy) ELSE dx + dy
    IN  CASE relation = "ball or neighbour" -> adx + ady <= r \/ (adx <= 1 /\ ady <= 1)
          [] relation = "distance clause" -> adx <= r /\ ady <= r /\ sum <= r

\* The least set of free cells that holds `region` and every free cell one
\* allowed step away from a cell of it.
RECURSIVE Grown(_, _)
Grown(relation, region) ==
    LET next == region \cup
                { cell \in FreeCells :
                    \E from \in region :
                        StepAllowed(relation, scenario.parameters.infection_radius,
                                    cell.x - from.x, cell.y - from.y) }
    IN  IF next = region THEN region ELSE Grown(relation, next)

FreeCellsOf(area) == { cell \in FreeCells : InHalfOpen(area, cell) }

\* Some free cell of the source lies in the region grown from the free
\* cells of the target.
Reaches(relation, source, target) ==
    FreeCellsOf(source) \cap Grown(relation, FreeCellsOf(target)) # {}

\* C25: may_propagate_from(scenario, source, target) is true exactly when
\* some non-obstacle cell of source lies in the region grown from the
\* target's non-obstacle cells by repeatedly adding every in-grid,
\* non-obstacle cell at an offset (dx, dy) with |dx| + |dy| <=
\* infection_radius or (|dx| <= 1 and |dy| <= 1), for every
\* infection_radius >= 0.
C25_PropagationRelation ==
    call.fn = "may_propagate_from" =>
        (call.result <=> Reaches("ball or neighbour", call.source, call.target))

\* C26: whenever information can flow from source to target (persons
\* walking by 8-neighbour steps over in-grid, non-obstacle cells, relayed
\* by infections over a Manhattan distance of at most infection_radius,
\* from a non-obstacle source cell to a non-obstacle target cell),
\* may_propagate_from returns true, for every infection_radius, 0 included.
C26_Conservative ==
    call.fn = "may_propagate_from" =>
        (Reaches("ball or neighbour", call.source, call.target) => call.result)

\* C27 as stated: for infection_radius >= 1 may_propagate_from returns
\* what the same region growth returns with the distance clause alone.
C27_NeighbourClauseRedundantFromOne ==
    (call.fn = "may_propagate_from" /\ scenario.parameters.infection_radius >= 1) =>
        (call.result <=> Reaches("distance clause", call.source, call.target))

\* C27, amended: for infection_radius >= 2 may_propagate_from returns what
\* the same region growth returns with the distance clause alone.
C27_NeighbourClauseRedundantFromTwo ==
    (call.fn = "may_propagate_from" /\ scenario.parameters.infection_radius >= 2) =>
        (call.result <=> Reaches("distance clause", call.source, call.target))

\* With a radius of at least 2, the function has answered true for two
\* free cells that are diagonal neighbours whose common neighbours are
\* obstacles.
C27_Witness ==
    /\ call.fn = "may_propagate_from"
    /\ scenario.parameters.infection_radius >= 2
    /\ call.result
    /\ call.source = [top_left |-> [x |-> 0, y |-> 0], size |-> [x |-> 1, y |-> 1],
                      bottom_right |-> [x |-> 1, y |-> 1]]
    /\ call.target = [top_left |-> [x |-> 1, y |-> 1], size |-> [x |-> 1, y |-> 1],
                      bottom_right |-> [x |-> 2, y |-> 2]]
    /\ [x |-> 1, y |-> 0] \notin FreeCells
    /\ [x |-> 0, y |-> 1] \notin FreeCells

\* A rectangle within the bounds of the scenario's grid.
WithinGrid(r) ==
    /\ 0 <= r.top_left.x /\ r.top_left.x <= r.bottom_right.x
    /\ r.bottom_right.x <= scenario.grid_size.x
    /\ 0 <= r.top_left.y /\ r.top_left.y <= r.bottom_right.y
    /\ r.bottom_right.y <= scenario.grid_size.y

\* C39 (symmetry): for rectangles a and b within the grid,
\* may_propagate_from(scenario, a, b) = may_propagate_from(scenario, b, a).
C39_Symmetric ==
    (/\ call.fn \in {"may_propagate_from", "may_propagate_from (empty area)"}
     /\ WithinGrid(call.source)
     /\ WithinGrid(call.target))
    => call.result = may_propagate_from(scenario, call.target, call.source)

\* The same for rectangles that contain at least one cell.
C39_SymmetricNonEmpty ==
    (/\ call.fn \in {"may_propagate_from", "may_propagate_from (empty area)"}
     /\ PositiveSize(call.source)
     /\ PositiveSize(call.target))
    => call.result = may_propagate_from(scenario, call.target, call.source)

\* No cell occurs twice in a list of cells.
NoDuplicates(cells) == \A i, j \in DOMAIN cells : cells[i] = cells[j] => i = j

\* C40 (termination): every call of may_propagate_from returns; no cell is
\* pushed onto the frontier twice, a cell is pushed exactly when it is
\* inserted into the region, and the region holds only cells of the target
\* and in-grid cells that are not on an obstacle.
C40_Terminates ==
    /\ [](call.fn = "may_propagate_from (loop)" =>
            /\ NoDuplicates(call.pushed)
            /\ call.region = Range(call.pushed)
            /\ Range(call.frontier) \subseteq call.region
            /\ call.region \subseteq Range(Rectangle_iter_cells(call.target)) \cup FreeCells)
    /\ (call.fn = "may_propagate_from (loop)" ~>
            (call.fn = "may_propagate_from (loop)" /\ call.state = "returned"))
    /\ [](call.fn = "may_propagate_from (loop)" /\ call.state = "returned" =>
            call.result = may_propagate_from(scenario, call.source, call.target))

\* A call has returned after a growth that pushed cells beyond the target's
\* own, from a target with a cell outside the grid.
C40_Witness ==
    /\ call.fn = "may_propagate_from (loop)"
    /\ call.state = "returned"
    /\ Len(call.pushed) > Len(Rectangle_iter_cells(call.target)) + 2
    /\ ~(Range(Rectangle_iter_cells(call.target)) \subseteq FreeCells)
    /\ scenario.obstacles # <<>>

----------------------------------------------------------------------------
(* Properties of the validator protocol of launch.                         *)

\* C28 (validator protocol): in every call of launch in rocket mode, for
\* every tick t in 1..ticks the validator has received an on_patch_tick call
\* for t, and for every person exactly one on_person_tick call for t, which
\* comes after an on_patch_tick call of the same tick and patch.
C28_ValidatorProtocol ==
    \A k \in DOMAIN launches :
        ~launches[k].starship =>
            LET calls == launches[k].validator_calls
            IN  \A t \in 1..scenario.ticks :
                    /\ \E i \in DOMAIN calls :
                           calls[i].hook = "on_patch_tick" /\ calls[i].tick = t
                    /\ \A person \in DOMAIN scenario.population :
                           /\ Cardinality({ i \in DOMAIN calls :
                                               /\ calls[i].hook = "on_person_tick"
                                               /\ calls[i].tick = t
                                               /\ calls[i].person_id = person - 1 }) = 1
                           /\ \A i \in DOMAIN calls :
                                  (/\ calls[i].hook = "on_person_tick"
                                   /\ calls[i].tick = t
                                   /\ calls[i].person_id = person - 1)
                                  => \E j \in 1..(i - 1) :
                                         /\ calls[j].hook = "on_patch_tick"
                                         /\ calls[j].tick = t
                                         /\ calls[j].patch_id = calls[i].patch_id

----------------------------------------------------------------------------
(* Properties of the aggregation of statistics.                            *)

\* C31 (exact aggregation): once the partial counts of every patch of a
\* partition have been added to all-zero statistics, in whatever order, the
\* sum equals the row the serial engine recorded for the query.
C31_AggregationExact ==
    (call.fn = "Statistics::add" /\ call.remaining = {})
    => call.sum = statistics[call.key][Len(statistics[call.key])]

\* A finished sum over several patches, two of which hold persons counted
\* by the query.
C31_Witness ==
    /\ call.fn = "Statistics::add"
    /\ call.remaining = {}
    /\ \E p1, p2 \in DOMAIN call.patches :
          /\ p1 # p2
          /\ \A p \in {p1, p2} :
                 Patch_statistics(population, scenario.queries[call.key].area,
                                  call.patches[p]) # Statistics_new(0, 0, 0, 0)

----------------------------------------------------------------------------
(* Properties of the output checker.                                       *)

\* C38 (checker accepts exactly equal results): check(output, expected)
\* reports no problem if and only if the traces of the two outputs are equal
\* and their statistics are equal; the scenarios they echo play no part.
C38_CheckerExact ==
    call.fn = "check"
    => ((call.problems = <<>>)
        <=> (/\ call.output.trace = call.expected.trace
             /\ call.output.statistics = call.expected.statistics))

\* check has accepted two outputs that echo different scenarios.
C38_Witness ==
    /\ call.fn = "check"
    /\ call.problems = <<>>
    /\ call.output.scenario # call.expected.scenario
    /\ Len(call.output.trace) > 1

----------------------------------------------------------------------------
(* Properties of the test harness and of the command line.                 *)

\* C32 (failures are surfaced, nothing is compared or saved): when the
\* simulation panics, TestCase::run panics with "Simulation panicked with: "
\* followed by the message of the original panic; when the simulation
\* panics or the wait times out, the checker is never called; and when the
\* simulation of main does not return an Output, main ends with that
\* panic or error and never calls output::save.
C32_FailureSurfaced ==
    /\ call.fn = "TestCase::run" =>
          LET result == TestCase_simulate(call.simulate, scenario, output)
          IN  /\ (result.kind = "Panic" \/ call.receiver = "dropped")
                 => (call.checker_calls = 0 /\ call.test.kind # "Ok")
              /\ (result.kind = "Panic" /\ call.receiver = "received")
                 => /\ call.test.kind = "Panic"
                    /\ call.test.message = "Simulation panicked with: " \o result.message
              /\ call.receiver = "dropped"
                 => /\ call.test.kind = "Panic"
                    /\ call.test.message = "Timeout after {} seconds!"
    /\ call.fn = "main" =>
          (call.simulated.kind # "Ok"
           => /\ call.save_calls = 0
              /\ call.exit.kind = call.simulated.kind
              /\ call.exit.message = IF call.simulated.kind = "Panic"
                                      THEN call.simulated.message
                                      ELSE call.simulated.error)

\* run has received the panic of launch, whose payload was a String.
C32_Witness ==
    /\ call.fn = "TestCase::run"
    /\ call.simulate.name = "launch"
    /\ call.thread = "finished"
    /\ call.receiver = "received"
    /\ call.test.kind = "Panic"

----------------------------------------------------------------------------
(* Properties of the order of the serial engine.                           *)

\* The cells person i is checked against when it is ticked in the tick
\* from snapshot `before` to snapshot `after`: the cells persons of smaller
\* id have after their move and the cells all persons had before the tick.
SeenBy(i, before, after) ==
    { after[k].position : k \in { k \in DOMAIN after : k < i } }
    \cup { before[k].position : k \in DOMAIN before }

\* C33 (serial order): in every recorded tick a person takes the cell it
\* heads for exactly when that cell is inside the grid, off every obstacle,
\* not the cell a person of smaller id has after its move and not the cell
\* any person had before the tick; so of two persons i < j heading for the
\* same cell, free when i is ticked, i takes it and j stays with direction
\* None.
C33_SerialOrder ==
    \A t \in DOMAIN trace :
        t < Len(trace) =>
            LET before == trace[t].population
                after == trace[t + 1].population
                Free(i, cell) == /\ ~OutsideGrid(cell)
                                 /\ ~InsideObstacle(cell)
                                 /\ cell \notin SeenBy(i, before, after)
            IN  \A i \in DOMAIN population :
                    LET cell == CandidateOf(before[i], scenario.parameters)
                    IN  /\ Free(i, cell) => after[i].position = cell
                        /\ ~Free(i, cell) => /\ after[i].position = before[i].position
                                             /\ after[i].direction = "None"
                        /\ \A j \in DOMAIN population :
                               (/\ i < j
                                /\ CandidateOf(before[j], scenario.parameters) = cell
                                /\ Free(i, cell))
                               => /\ after[i].position = cell
                                  /\ after[j].position = before[j].position
                                  /\ after[j].direction = "None"

\* In some recorded tick two persons headed for the same cell, which no
\* person occupied; the one of smaller id took it.
C33_Witness ==
    \E t \in DOMAIN trace, i, j \in DOMAIN population :
        /\ t < Len(trace)
        /\ i < j
        /\ LET before == trace[t].population
               after == trace[t + 1].population
               cell == CandidateOf(before[i], scenario.parameters)
           IN  /\ CandidateOf(before[j], scenario.parameters) = cell
               /\ \A k \in DOMAIN before : before[k].position # cell
               /\ after[i].position = cell
               /\ after[j].position = before[j].position

----------------------------------------------------------------------------
(* Properties of the movement of a person.                                 *)

\* C34 (bounded movement): for every direction and every acceleration the
\* limited velocity has both components in -1..1, Direction::from_vector
\* returns a direction for it instead of panicking, and the cell it leads to
\* differs from the old one by at most 1 in x and at most 1 in y.
C34_BoundedMovement ==
    call.fn = "Person::tick"
    => /\ call.velocity.x \in -1..1
       /\ call.velocity.y \in -1..1
       /\ call.result \in Directions
       /\ Direction_vector(call.result) = call.velocity
       /\ Abs(call.position.x - call.old_position.x) <= 1
       /\ Abs(call.position.y - call.old_position.y) <= 1

\* Direction and acceleration add up to 2 in x and to -2 in y.
C34_Witness ==
    /\ call.fn = "Person::tick"
    /\ Xy_add(Direction_vector(call.direction), Direction_vector(call.acceleration))
          = Xy_new(2, -2)
    /\ call.result = "NorthEast"

----------------------------------------------------------------------------
(* Properties of the order of the steps of a tick.                         *)

\* C35 (infectious in the tick of the transition): in every recorded tick,
\* a person i that begins the tick Infected and turns Infectious in it, and
\* that coughs on its chain state of that tick, infects in that same tick
\* every person j that begins the tick Susceptible, breathes and stands
\* within the infection radius after the moves.
C35_SameTickInfectious ==
    \A t \in DOMAIN trace :
        t < Len(trace) =>
            LET before == trace[t].population
                after == trace[t + 1].population
            IN  \A i, j \in DOMAIN before :
                    (/\ i # j
                     /\ before[i].infection_state.state = "Infected"
                     /\ after[i].infection_state.state = "Infectious"
                     /\ after[i].seed = Sha256(before[i].seed)
                     /\ after[i].seed[1] < scenario.parameters.cough_threshold
                     /\ before[j].infection_state.state = "Susceptible"
                     /\ after[j].seed[2] < scenario.parameters.breath_threshold
                     /\ ManhattanDistance(after, i, j) <= scenario.parameters.infection_radius)
                    => after[j].infection_state = [state |-> "Infected", in_state_since |-> 0]

\* In some recorded tick a person turned Infectious, coughed, and a
\* susceptible person within the radius breathed and no other person was
\* Infectious.
C35_Witness ==
    \E t \in DOMAIN trace, i, j \in DOMAIN population :
        /\ t < Len(trace)
        /\ i # j
        /\ LET before == trace[t].population
               after == trace[t + 1].population
           IN  /\ before[i].infection_state.state = "Infected"
               /\ after[i].infection_state = [state |-> "Infectious", in_state_since |-> 0]
               /\ after[i].seed[1] < scenario.parameters.cough_threshold
               /\ before[j].infection_state.state = "Susceptible"
               /\ after[j].seed[2] < scenario.parameters.breath_threshold
               /\ ManhattanDistance(after, i, j) <= scenario.parameters.infection_radius
               /\ \A k \in DOMAIN after :
                      k # i => after[k].infection_state.state # "Infectious"

----------------------------------------------------------------------------
(* Properties of the course of the infection states.                       *)

StateRank(state) ==
    CASE state = "Susceptible" -> 0
      [] state = "Infected" -> 1
      [] state = "Infectious" -> 2
      [] state = "Recovered" -> 3

\* C36 (forward only): every step of the run leaves the state of a person
\* as it is or moves it to the next state of Susceptible, Infected,
\* Infectious, Recovered; a Recovered person stays Recovered; a Susceptible
\* person keeps its state in Person::tick and changes it only as infect
\* changes it; and a population that starts without an Infected and
\* without an Infectious person keeps all its states throughout the run.
C36_ForwardOnly ==
    /\ []((\A i \in DOMAIN scenario.population :
              scenario.population[i].infection_state.state \in {"Susceptible", "Recovered"})
          => \A i \in DOMAIN population :
                 Person_state(population[i]) = scenario.population[i].infection_state.state)
    /\ [][\A i \in DOMAIN population :
             LET old == Person_state(population[i])
                 new == Person_state(population'[i])
             IN  /\ StateRank(new) - StateRank(old) \in {0, 1}
                 /\ old = "Recovered" => new = "Recovered"
                 /\ (old = "Susceptible" /\ idx' = idx + 1) => new = "Susceptible"
                 /\ (old = "Susceptible" /\ new # "Susceptible")
                    => population'[i] = Person_infect(population[i])]_vars

\* In some recorded tick a person that was Recovered when the pair loop
\* ran breathed within the radius of an Infectious, coughing person.
C36_Witness ==
    \E t \in DOMAIN trace, i, j \in DOMAIN population :
        /\ t < Len(trace)
        /\ i # j
        /\ trace[t + 1].population[j].infection_state.state = "Recovered"
        /\ ManhattanDistance(trace[t + 1].population, i, j)
              <= scenario.parameters.infection_radius
        /\ Transmits(trace[t + 1].population, i, j)

----------------------------------------------------------------------------
(* Properties of what a run leaves unchanged.                              *)

\* C37 (frame of a run): at every point of a run there are as many persons
\* as the scenario lists, each with the id of its place in that list, its
\* name and the parameters of the scenario; no step changes the scenario;
\* and the Output creep returns echoes the scenario it was given.
C37_RunFrame ==
    /\ [](/\ Len(population) = Len(scenario.population)
          /\ \A i \in DOMAIN population :
                 /\ population[i].id = i - 1
                 /\ population[i].name = scenario.population[i].name
                 /\ population[i].parameters = scenario.parameters
          /\ \A t \in DOMAIN trace :
                 /\ Len(trace[t].population) = Len(scenario.population)
                 /\ \A i \in DOMAIN trace[t].population :
                        trace[t].population[i].name = scenario.population[i].name
          /\ pc = "done" => output.scenario = scenario)
    /\ [][scenario' = scenario]_vars

\* creep has returned and a person differs from its entry in the scenario
\* in position, direction, infection state and chain state.
C37_Witness ==
    /\ pc = "done"
    /\ \E i \in DOMAIN population :
          /\ population[i].position # scenario.population[i].position
          /\ population[i].direction # scenario.population[i].direction
          /\ population[i].infection_state.state # scenario.population[i].infection_state.state
          /\ population[i].rng # scenario.population[i].seed

====
